---- MODULE Spec2Model ----
(***************************************************************************)
(* Model of risk_query_service: file discovery with a per-category TTL     *)
(* cache (file_index.py), dataset bundles built from the selected files    *)
(* (datasets.py), the cursor codec (utils/paginate.py) and the query       *)
(* handler of the actions family (routers/actions.py).                     *)
(*                                                                         *)
(* Time is counted in ticks; TicksPerSecond ticks make one second, so that *)
(* a modification time has a sub-second part, as st_mtime has.             *)
(* Strings built by formatting (f"{name}:{size}:{mtime}", "|".join, the    *)
(* SHA-1 hex digest) are modelled by tuples of their components: each is   *)
(* injective in the components the model keeps.                            *)
(***************************************************************************)
EXTENDS Integers, Sequences, FiniteSets, TLC

VARIABLES
    dir,        \* the local source directory: file name -> [size, mtime, rows]
    now,        \* the clock, in ticks
    writes,     \* number of producer writes so far
    calls,      \* number of requests handled so far
    client,     \* the limit and the filter the client of this run asks with
    rotating,   \* the category whose reports the producer of this run writes
    file_cache, \* file_index._file_cache: category -> [value, expires]
    res,        \* the call of get_latest_file_with_hash that has just returned
    hashed,     \* the file stat and the fingerprint of the latest discovery
    last,       \* the query request that has just been answered
    served,     \* the bundle of the latest successful query
    held,       \* the cursor token the client received last
    walk,       \* a client following cursors from a fresh query
    cur,        \* the cursor codec's subject: a cursor, its token, the decoded token
    settings,   \* config.Settings as get_settings() caches it, and the environment
    remote,     \* the remote folder: file name -> [rows]
    cache_dir,  \* settings.cache_dir: file name -> [size, mtime, rows]
    names_cache,\* file_index._remote_names_cache and _remote_names_timestamp
    wire,       \* the network requests sent so far, by kind, each with its time and
                \* whether it was answered
    threads,    \* concurrent calls of get_latest_file_with_hash: thread -> [pc, found];
                \* found is the local variable record between discovery and store
    race,       \* what the concurrent calls have done so far
    tbl         \* a frame, the filters of a query, and the frame apply_filters returns

remoteVars == <<settings, remote, cache_dir, names_cache, wire>>

raceVars == <<threads, race>>

vars == <<dir, now, writes, calls, client, rotating, file_cache, res, hashed, last, served, held, walk, cur,
          settings, remote, cache_dir, names_cache, wire, threads, race, tbl>>

----------------------------------------------------------------------------
\* Bounds of the model

MaxStamp == 2          \* production timestamps are 1..MaxStamp
MaxTime == 2           \* the clock stops at MaxTime ticks
MaxWrites == 1         \* the producer writes at most MaxWrites times
TicksPerSecond == 2    \* resolution of modification times
FileIndexTtl == 1      \* settings.file_index_ttl_seconds, in seconds
MaxLimit == 2          \* requests ask for 1..MaxLimit rows
MaxOffset == 1         \* explicit offsets and cursor offsets are 0..MaxOffset
MaxCalls == 2          \* at most MaxCalls requests are handled
MaxWalkCalls == 3      \* a walking client sends at most MaxWalkCalls requests
GraphCacheTtl == 1     \* settings.graph_cache_ttl_seconds, in seconds

----------------------------------------------------------------------------
\* Optional values: None is the empty tuple, a present value a 1-tuple.

None == <<>>
Some(v) == <<v>>

----------------------------------------------------------------------------
\* file_index.py: report categories and file name templates

ReportType == {"actions", "crit_actions", "perms", "crit_perms"}

\* The literal prefix of each category's pattern; a file name is the pair of
\* its prefix and the number its 14 timestamp digits spell.
FILE_PATTERNS ==
    [ actions      |-> "RS_Action_Lvl_",
      crit_actions |-> "RS_CritAction_Lvl_",
      perms        |-> "RS_Perm_Lvl_",
      crit_perms   |-> "RS_CritPerm_Lvl_" ]

Stamps == 1..MaxStamp

\* The report files of a category
ReportNames(c) == { [prefix |-> FILE_PATTERNS[c], stamp |-> s] : s \in Stamps }

\* A file of the directory that matches no pattern.
OtherName == [prefix |-> "notes", stamp |-> 0]

\* pattern.match(file.name)
PatternMatch(pattern, name) == name.prefix = pattern

\* _parse_timestamp: mktime(strptime(digits)) is increasing in the digits
\* of a valid timestamp; the model keeps the number itself.
parse_timestamp(name) == name.stamp

----------------------------------------------------------------------------
\* File contents: rows of a tab-separated report, by the columns the
\* filters and the requests of the model read.

Row(u, r) == [UserName |-> u, RiskLevel |-> r]

ContentA == << Row("u1", "High"), Row("u2", "low") >>
ContentB == << Row("u2", "low"), Row("u1", "High") >>
ContentC == << Row("u3", "HIGH") >>

\* What the producer of the model writes: two contents of the same size.
Contents == {ContentA, ContentB}

\* st_size: every row of the model has the same length in bytes.
SizeOf(rows) == Len(rows)

NewFile(rows, t) == [size |-> SizeOf(rows), mtime |-> t, rows |-> rows]

----------------------------------------------------------------------------
\* cachetools.TTLCache as file_index.py uses it

TtlTicks == FileIndexTtl * TicksPerSecond

\* A lookup that forgets the expiry of the entries
cache_get_no_expiry(cache, t, key) ==
    IF key \in DOMAIN cache THEN Some(cache[key].value) ELSE None

\* TTLCache.get: an entry is visible while timer() < expires
cache_get(cache, t, key) ==
    IF key \in DOMAIN cache /\ t < cache[key].expires
    THEN Some(cache[key].value)
    ELSE None

\* The store as dict.setdefault would do it: an entry the cache still holds,
\* expired or not, keeps its value.
cache_set_keeps_existing(cache, t, key, value) ==
    IF key \in DOMAIN cache THEN cache
    ELSE [ k \in DOMAIN cache \cup {key} |->
             IF k = key THEN [value |-> value, expires |-> t + TtlTicks]
             ELSE cache[k] ]

\* TTLCache.__setitem__: expire(time) drops every expired entry, then the
\* key is stored with expires = time + ttl
cache_set(cache, t, key, value) ==
    LET live == { k \in DOMAIN cache : t < cache[k].expires }
    IN  [ k \in live \cup {key} |->
            IF k = key THEN [value |-> value, expires |-> t + TtlTicks]
            ELSE cache[k] ]

----------------------------------------------------------------------------
\* file_index.py: discovery

\* _compute_file_hash: f"{path.name}:{stat.st_size}:{int(stat.st_mtime)}"
compute_file_hash(path, stat) ==
    << path, stat.size, stat.mtime \div TicksPerSecond >>

\* _discover_local_files: the files of the listing that match the pattern,
\* in the listing's order, each with its parsed timestamp
RECURSIVE discover_local_files(_, _)
discover_local_files(pattern, listing) ==
    IF listing = <<>> THEN <<>>
    ELSE LET file == Head(listing)
             rest == discover_local_files(pattern, Tail(listing))
         IN  IF PatternMatch(pattern, file)
             THEN << [path |-> file, ts |-> parse_timestamp(file)] >> \o rest
             ELSE rest

\* list.sort(key=ts, reverse=True): stable, largest timestamp first
RECURSIVE InsertByTs(_, _)
InsertByTs(sorted, item) ==
    IF sorted = <<>> THEN << item >>
    ELSE IF Head(sorted).ts >= item.ts
         THEN << Head(sorted) >> \o InsertByTs(Tail(sorted), item)
         ELSE << item >> \o sorted

\* The matches left in the order of the listing
SortSkipped(matches) == matches

RECURSIVE SortByTsDesc(_)
SortByTsDesc(matches) ==
    IF matches = <<>> THEN <<>>
    ELSE InsertByTs(SortByTsDesc(SubSeq(matches, 1, Len(matches) - 1)),
                    matches[Len(matches)])

\* _discover_files, local mode: None when nothing matches, else the record
\* of the first match after the sort
discover_files(report_type, listing, d) ==
    LET matches == discover_local_files(FILE_PATTERNS[report_type], listing)
    IN  IF matches = <<>> THEN None
        ELSE LET first == SortByTsDesc(matches)[1]
             IN  Some([ report_type |-> report_type,
                        path        |-> first.path,
                        timestamp   |-> first.ts,
                        file_hash   |-> compute_file_hash(first.path, d[first.path]) ])

\* get_latest_file_with_hash: the result is the record (None stands for the
\* raised FileNotFoundError), the cache afterwards, and whether discovery ran
get_latest_file_with_hash(cache, d, t, report_type, listing) ==
    LET cached == cache_get(cache, t, report_type)
    IN  IF cached # None
        THEN [record |-> cached, cache |-> cache, discovered |-> FALSE]
        ELSE LET found == discover_files(report_type, listing, d)
             IN  IF found = None
                 THEN [record |-> None, cache |-> cache, discovered |-> TRUE]
                 ELSE [record |-> found,
                       cache |-> cache_set(cache, t, report_type, found[1]),
                       discovered |-> TRUE]

----------------------------------------------------------------------------
\* The directory listings folder.iterdir() can produce: every order of the
\* files that match the category, followed by the other files (whose order
\* the pattern filter makes irrelevant).

Perms(S) ==
    { f \in [1..Cardinality(S) -> S] : \A i, j \in 1..Cardinality(S) : i # j => f[i] # f[j] }

RECURSIVE SetToSeq(_)
SetToSeq(S) ==
    IF S = {} THEN <<>>
    ELSE LET x == CHOOSE y \in S : TRUE IN << x >> \o SetToSeq(S \ {x})

Listings(d, report_type) ==
    LET match == { n \in DOMAIN d : PatternMatch(FILE_PATTERNS[report_type], n) }
    IN  { p \o SetToSeq(DOMAIN d \ match) : p \in Perms(match) }

\* Two listings of the whole directory: oldest report first, and the reverse.
RECURSIVE OldestFirst(_)
OldestFirst(S) ==
    IF S = {} THEN <<>>
    ELSE LET x == CHOOSE y \in S : \A z \in S : y.stamp <= z.stamp
         IN  << x >> \o OldestFirst(S \ {x})

Reverse(seq) == [ i \in 1..Len(seq) |-> seq[Len(seq) + 1 - i] ]

WholeListings(d) == { OldestFirst(DOMAIN d), Reverse(OldestFirst(DOMAIN d)) }

----------------------------------------------------------------------------
\* datasets.py: bundles

\* "crit" in file_path.stem.lower(), by the prefixes of the file names
CritInStem ==
    [ RS_Action_Lvl_     |-> FALSE,
      RS_CritAction_Lvl_ |-> TRUE,
      RS_Perm_Lvl_       |-> FALSE,
      RS_CritPerm_Lvl_   |-> TRUE ]

\* _report_type_label
report_type_label(report_type, is_critical) ==
    IF report_type \in {"actions", "crit_actions"}
    THEN (IF is_critical THEN "Critical Action" ELSE "Action")
    ELSE IF report_type \in {"perms", "crit_perms"}
         THEN (IF is_critical THEN "Critical Permission" ELSE "Permission")
         ELSE report_type

\* A normalisation that keeps the IsCritical column of a file that has one
normalize_row_keeps_column(row, report_type, file_path) ==
    LET is_critical == IF "IsCritical" \in DOMAIN row THEN row.IsCritical
                       ELSE CritInStem[file_path.prefix]
    IN  [ UserName   |-> row.UserName,
          RiskLevel  |-> row.RiskLevel,
          IsCritical |-> is_critical,
          ReportType |-> report_type_label(report_type, is_critical) ]

\* _normalize_lazyframe: IsCritical and ReportType are overwritten from the
\* file's name; the other columns are kept
normalize_row(row, report_type, file_path) ==
    LET is_critical == CritInStem[file_path.prefix]
    IN  [ UserName   |-> row.UserName,
          RiskLevel  |-> row.RiskLevel,
          IsCritical |-> is_critical,
          ReportType |-> report_type_label(report_type, is_critical) ]

\* _load_bundle: the rows the scan of record.path yields when it is collected
load_rows(d, record) ==
    [ i \in 1..Len(d[record.path].rows) |->
        normalize_row(d[record.path].rows[i], record.report_type, record.path) ]

\* str(n) of a natural number, a character per digit
RECURSIVE Digits(_)
Digits(n) ==
    LET digit == << "0", "1", "2", "3", "4", "5", "6", "7", "8", "9" >>
    IN  IF n < 10 THEN << digit[n + 1] >> ELSE Digits(n \div 10) \o << digit[(n % 10) + 1] >>

\* The text of a file fingerprint, f"{name}:{size}:{mtime}": the name is the
\* prefix, the digits of the stamp and the extension
hash_text(h) ==
    << h[1].prefix >> \o Digits(h[1].stamp) \o << ".txt", ":" >> \o Digits(h[2])
        \o << ":" >> \o Digits(h[3])

\* sep.join(texts)
RECURSIVE join(_, _)
join(sep, texts) ==
    IF Len(texts) = 0 THEN << >>
    ELSE IF Len(texts) = 1 THEN texts[1]
    ELSE texts[1] \o << sep >> \o join(sep, Tail(texts))

\* hashlib.sha1(...).hexdigest(), taken as injective
sha1(text) == << "sha1", text >>

\* A bundle fingerprint that does not depend on the order of the two files
combined_hash_unordered(hashes) ==
    sha1({ hash_text(hashes[i]) : i \in DOMAIN hashes })

\* hashlib.sha1("|".join(hashes)).hexdigest()
combined_hash(hashes) ==
    sha1(join("|", [ i \in DOMAIN hashes |-> hash_text(hashes[i]) ]))

\* _combine_frames(["actions", "crit_actions"]): resolves the two categories
\* in order; ok is FALSE when a resolve raised FileNotFoundError
actions_bundle(cache, d, t, listing1, listing2) ==
    LET r1 == get_latest_file_with_hash(cache, d, t, "actions", listing1)
    IN  IF r1.record = None
        THEN [ok |-> FALSE, cache |-> r1.cache]
        ELSE LET r2 == get_latest_file_with_hash(r1.cache, d, t, "crit_actions", listing2)
             IN  IF r2.record = None
                 THEN [ok |-> FALSE, cache |-> r2.cache]
                 ELSE [ ok          |-> TRUE,
                        cache       |-> r2.cache,
                        rows        |-> load_rows(d, r1.record[1]) \o load_rows(d, r2.record[1]),
                        file_hash   |-> combined_hash(<< r1.record[1].file_hash,
                                                         r2.record[1].file_hash >>),
                        report_type |-> "actions" ]

\* str.lower() on the cell values and the filter values of the model
Lower(str) ==
    CASE str = "High"    -> "high"
      [] str = "HIGH"    -> "high"
      [] str = "LOW"     -> "low"
      [] str = "R1"      -> "r1"
      [] str = "SAP"     -> "sap"
      [] str = "Approve" -> "approve"
      [] OTHER           -> str

\* apply_filters with the risk_level filter: an empty filter adds nothing
apply_filters(rows, risk_level) ==
    IF risk_level = "" THEN rows
    ELSE SelectSeq(rows, LAMBDA row : Lower(row.RiskLevel) = Lower(risk_level))

\* A slice that starts at the first row whatever the offset
Slice_from_start(rows, offset, length) ==
    SubSeq(rows, 1, IF length > Len(rows) THEN Len(rows) ELSE length)

\* LazyFrame.slice(offset, length): a negative offset counts from the end
Slice(rows, offset, length) ==
    LET n     == Len(rows)
        start == IF offset < 0 THEN (IF n + offset < 0 THEN 0 ELSE n + offset)
                 ELSE (IF offset > n THEN n ELSE offset)
        raw   == (IF offset < 0 THEN n + offset ELSE offset) + length
        stop  == IF raw < start THEN start ELSE IF raw > n THEN n ELSE raw
    IN  SubSeq(rows, start + 1, stop)

\* A page fetch that reads limit rows and so never sees a row beyond the page
paginate_collect_no_lookahead(rows, limit, offset) ==
    LET window   == Slice(rows, offset, limit)
        has_more == Len(window) > limit
    IN  [ rows     |-> IF has_more THEN SubSeq(window, 1, limit) ELSE window,
          has_more |-> has_more ]

\* paginate_collect
paginate_collect(rows, limit, offset) ==
    LET window   == Slice(rows, offset, limit + 1)
        has_more == Len(window) > limit
    IN  [ rows     |-> IF has_more THEN SubSeq(window, 1, limit) ELSE window,
          has_more |-> has_more ]

----------------------------------------------------------------------------
\* utils/paginate.py: the cursor codec
\*
\* A token is the URL-safe base64 text of a JSON text.  The model keeps the
\* layers apart: <<"b64", bytes>> is base64 text that decodes to bytes,
\* <<"raw">> text that base64 decoding rejects; <<"json", fields>> is the
\* JSON text of an object with these members, <<"text">> bytes that are no
\* JSON.  A JSON value is <<"int", n>>, <<"str", s>> or <<"null">>.

Cursor(offset, file_hash, report_type) ==
    [offset |-> offset, file_hash |-> file_hash, report_type |-> report_type]

\* json.dumps(cursor.__dict__, separators=(",", ":"))
json_dumps(c) ==
    << "json", [ offset      |-> << "int", c.offset >>,
                 file_hash   |-> << "str", c.file_hash >>,
                 report_type |-> << "str", c.report_type >> ] >>

\* base64.urlsafe_b64encode
b64encode(bytes) == << "b64", bytes >>

\* base64.urlsafe_b64decode: None stands for binascii.Error
b64decode(token) == IF token[1] = "b64" THEN Some(token[2]) ELSE None

\* json.loads: None stands for JSONDecodeError
json_loads(bytes) == IF bytes[1] = "json" THEN Some(bytes[2]) ELSE None

\* int(value) of a JSON number; None stands for the TypeError / ValueError
\* of a value that is no number (the tokens of the model carry no numeric
\* strings)
PyInt(value) == IF value[1] = "int" THEN Some(value[2]) ELSE None

\* str(value)
PyStr(value) == IF value[1] = "str" THEN value[2] ELSE << value[1] >>

\* encode_cursor
encode_cursor(c) == b64encode(json_dumps(c))

\* A decoder that takes every token for one of the actions family
decode_cursor_one_family(token) ==
    LET raw == b64decode(token)
    IN  IF raw = None THEN [ok |-> FALSE]
        ELSE LET data == json_loads(raw[1])
             IN  IF data = None THEN [ok |-> FALSE]
                 ELSE IF ~({"offset", "file_hash", "report_type"} \subseteq DOMAIN data[1])
                      THEN [ok |-> FALSE]
                      ELSE LET offset == PyInt(data[1].offset)
                           IN  IF offset = None THEN [ok |-> FALSE]
                               ELSE [ ok     |-> TRUE,
                                      cursor |-> Cursor(offset[1],
                                                        PyStr(data[1].file_hash),
                                                        "actions") ]

\* decode_cursor: ok is FALSE when CursorError is raised
decode_cursor(token) ==
    LET raw == b64decode(token)
    IN  IF raw = None THEN [ok |-> FALSE]
        ELSE LET data == json_loads(raw[1])
             IN  IF data = None THEN [ok |-> FALSE]
                 ELSE IF ~({"offset", "file_hash", "report_type"} \subseteq DOMAIN data[1])
                      THEN [ok |-> FALSE]
                      ELSE LET offset == PyInt(data[1].offset)
                           IN  IF offset = None THEN [ok |-> FALSE]
                               ELSE [ ok     |-> TRUE,
                                      cursor |-> Cursor(offset[1],
                                                        PyStr(data[1].file_hash),
                                                        PyStr(data[1].report_type)) ]

\* A successor cursor that stays at the offset of the current one
next_cursor_no_advance(current, advance) ==
    Cursor(current.offset, current.file_hash, current.report_type)

\* next_cursor
next_cursor(current, advance) ==
    Cursor(current.offset + advance, current.file_hash, current.report_type)

\* build_initial_cursor
build_initial_cursor(file_hash, report_type, offset) ==
    Cursor(offset, file_hash, report_type)

\* The cursor parameter given with an empty value
TokEmpty == << "" >>

\* maybe_decode_cursor: an absent or empty token gives no cursor
maybe_decode_cursor(token) ==
    IF token = None \/ token = Some(TokEmpty) THEN [ok |-> TRUE, cursor |-> None]
    ELSE LET dec == decode_cursor(token[1])
         IN  IF dec.ok THEN [ok |-> TRUE, cursor |-> Some(dec.cursor)] ELSE [ok |-> FALSE]

----------------------------------------------------------------------------
\* routers/actions.py: GET /risk/actions/query

\* The application registers no exception handler: an HTTPException carries
\* its own status, every other exception becomes 500.
StatusOfUnhandled == 500

\* A parameter outside its declared range is answered with 422.
StatusOfValidation == 422

MAX_LIMIT == 200

ErrorResponse(status, error) == [status |-> status, error |-> error]

\* A stale token whose offset is kept against the new bundle
select_cursor_keeps_offset(cursor_obj, bundle, offset) ==
    IF cursor_obj # None
    THEN [ effective_offset |-> cursor_obj[1].offset,
           cursor_obj |-> Cursor(cursor_obj[1].offset, bundle.file_hash, bundle.report_type) ]
    ELSE [ effective_offset |-> offset,
           cursor_obj |-> build_initial_cursor(bundle.file_hash, bundle.report_type, offset) ]

\* select_cursor with the offset parameter added to the offset of the cursor
select_cursor_adds_offset(cursor_obj, bundle, offset) ==
    IF cursor_obj # None
    THEN IF cursor_obj[1].file_hash # bundle.file_hash
         THEN [ effective_offset |-> 0,
                cursor_obj |-> build_initial_cursor(bundle.file_hash, bundle.report_type, 0) ]
         ELSE [ effective_offset |-> cursor_obj[1].offset + offset,
                cursor_obj |-> Cursor(cursor_obj[1].offset + offset, cursor_obj[1].file_hash,
                                      cursor_obj[1].report_type) ]
    ELSE [ effective_offset |-> offset,
           cursor_obj |-> build_initial_cursor(bundle.file_hash, bundle.report_type, offset) ]

\* query_actions, lines 93-102: the offset the page starts at and the cursor
\* the next token is derived from
select_cursor(cursor_obj, bundle, offset) ==
    IF cursor_obj # None
    THEN IF cursor_obj[1].file_hash # bundle.file_hash
         THEN [ effective_offset |-> 0,
                cursor_obj |-> build_initial_cursor(bundle.file_hash, bundle.report_type, 0) ]
         ELSE [ effective_offset |-> cursor_obj[1].offset,
                cursor_obj |-> cursor_obj[1] ]
    ELSE [ effective_offset |-> offset,
           cursor_obj |-> build_initial_cursor(bundle.file_hash, bundle.report_type, offset) ]

\* query_actions, lines 122-126: the token of the response
cursor_token(has_more, cursor_obj, rows) ==
    IF has_more THEN Some(encode_cursor(next_cursor(cursor_obj, Len(rows)))) ELSE None

\* query_actions, after the bundle is built
query_page(bundle, req) ==
    LET dec == maybe_decode_cursor(req.cursor)
    IN  IF ~dec.ok
        THEN [ effective_offset |-> None,
               resp |-> ErrorResponse(StatusOfUnhandled, "CursorError") ]
        ELSE LET sel  == select_cursor(dec.cursor, bundle, req.offset)
                 lf   == apply_filters(bundle.rows, req.risk_level)
                 page == paginate_collect(lf, req.limit, sel.effective_offset)
             IN  [ effective_offset |-> Some(sel.effective_offset),
                   resp |-> [ status      |-> 200,
                              data        |-> page.rows,
                              cursor      |-> cursor_token(page.has_more, sel.cursor_obj, page.rows),
                              has_more    |-> page.has_more,
                              file_hash   |-> bundle.file_hash,
                              report_type |-> bundle.report_type ] ]

\* The declared ranges of the query parameters: limit (ge=1, le=MAX_LIMIT)
\* and offset (ge=0); a request outside them is answered before the handler
\* runs.
valid_params(req) == req.limit >= 1 /\ req.limit <= MAX_LIMIT /\ req.offset >= 0

\* query_actions
query_actions(cache, d, t, req, listing1, listing2) ==
    IF ~valid_params(req)
    THEN [ cache  |-> cache,
           bundle |-> None,
           effective_offset |-> None,
           resp   |-> ErrorResponse(StatusOfValidation, "RequestValidationError") ]
    ELSE
    LET bundle == actions_bundle(cache, d, t, listing1, listing2)
    IN  IF ~bundle.ok
        THEN [ cache  |-> bundle.cache,
               bundle |-> None,
               effective_offset |-> None,
               resp   |-> ErrorResponse(StatusOfUnhandled, "FileNotFoundError") ]
        ELSE LET out == query_page(bundle, req)
             IN  [ cache  |-> bundle.cache,
                   bundle |-> Some([ file_hash   |-> bundle.file_hash,
                                     report_type |-> bundle.report_type,
                                     rows        |-> bundle.rows ]),
                   effective_offset |-> out.effective_offset,
                   resp   |-> out.resp ]

----------------------------------------------------------------------------
\* Initial state: the directory holds one report of each category, as the
\* test fixtures do, and an unrelated file; the caches are empty.

NoRes == [called |-> FALSE]
NoLast == [called |-> FALSE]
NoWalk == [active |-> FALSE]
NoCur == [stage |-> "none"]

InitDir ==
    [ n \in { [prefix |-> FILE_PATTERNS[c], stamp |-> 1] : c \in ReportType } \cup {OtherName} |->
        IF n = OtherName THEN NewFile(<<>>, 0)
        ELSE IF n.prefix = FILE_PATTERNS["actions"] THEN NewFile(ContentA, 0)
        ELSE NewFile(ContentC, 0) ]

\* The requests of one run share their limit and their risk_level filter
\* ("" stands for an absent filter).  A "plain" client sends requests without
\* a token or with the token it received last; a "walker" only starts at
\* offset 0 and follows the cursor of the response it has just read; an
\* "open" client also sends tokens of its own making.
Clients(kind) == [limit : 1..MaxLimit, risk_level : {"", "high"}, kind : {kind}]

\* The configuration of the test fixtures: ONEDRIVE_LOCAL_PATH names the
\* directory and API_KEY is set before the settings are read; no remote
\* folder is configured.
LocalSettings ==
    [ local_path  |-> TRUE,     \* settings.onedrive_local_path is set
      env_path    |-> TRUE,     \* os.environ holds ONEDRIVE_LOCAL_PATH
      dir_exists  |-> TRUE,     \* the directory it names exists
      creds       |-> FALSE,    \* ms_tenant_id, ms_client_id and ms_client_secret are all set
      folder_path |-> FALSE,    \* ms_folder_path is set
      api_key     |-> "test-key" ]

NoWire == [auth |-> << >>, list |-> << >>, download |-> << >>]

NoNames == [names |-> None, timestamp |-> 0]

\* No concurrent call is under way.
NoThreads == << >>

\* A race is a series of calls each of which misses the cache while another
\* call is under way: whether one of them has run its discovery, whether the
\* producer has written since, the number of stores, and the newest candidate
\* with its stat as the directory had them at the latest store.
NoRace == [discovered |-> FALSE, written |-> FALSE, stores |-> 0, newest |-> None, overlap |-> FALSE]

\* The calls that have not returned yet.
InFlight == { t \in DOMAIN threads : threads[t].pc # "done" }

\* A producer write that falls between the discoveries and the stores of a race.
ProducerWrites ==
    /\ race' = IF race.discovered /\ InFlight # {} THEN [race EXCEPT !.written = TRUE] ELSE race
    /\ UNCHANGED threads

NoTbl == [stage |-> "none"]

InitRemoteVars(s, r) ==
    /\ tbl = NoTbl
    /\ threads = NoThreads
    /\ race = NoRace
    /\ settings = s
    /\ remote = r
    /\ cache_dir = << >>
    /\ names_cache = NoNames
    /\ wire = NoWire

\* calls is the number of calls the run has left.
InitWith(c, r, budget) ==
    /\ InitRemoteVars(LocalSettings, << >>)
    /\ dir = InitDir
    /\ rotating = r
    /\ now = 0
    /\ writes = 0
    /\ calls = budget
    /\ client = c
    /\ file_cache = << >>
    /\ res = NoRes
    /\ hashed = None
    /\ last = NoLast
    /\ served = None
    /\ held = None
    /\ walk = NoWalk

\* The producer of a run rotates the reports of one category.
Init ==
    /\ \E c \in Clients("plain"), r \in {"actions", "crit_actions"} : InitWith(c, r, MaxCalls)
    /\ cur = NoCur

InitIndex ==
    /\ \E r \in ReportType : InitWith([limit |-> 1, risk_level |-> "", kind |-> "plain"], r, MaxCalls)
    /\ cur = NoCur

----------------------------------------------------------------------------
\* The environment: the clock and the producer of report files

Tick ==
    /\ now < MaxTime
    /\ now' = now + 1
    /\ res' = NoRes
    /\ last' = NoLast
    /\ UNCHANGED <<dir, writes, calls, client, rotating, file_cache, hashed, served, held, walk, cur>>
    /\ UNCHANGED remoteVars
    /\ UNCHANGED tbl
    /\ UNCHANGED raceVars

\* The producer drops a new report file into the directory: a report newer
\* than those the directory holds of its category.
ProducerAdd ==
    /\ writes < MaxWrites
    /\ \E n \in ReportNames(rotating) \ DOMAIN dir, rows \in Contents :
          /\ \A m \in DOMAIN dir : m.prefix = n.prefix => m.stamp < n.stamp
          /\ dir' = [ m \in DOMAIN dir \cup {n} |-> IF m = n THEN NewFile(rows, now) ELSE dir[m] ]
    /\ writes' = writes + 1
    /\ walk' = NoWalk
    /\ res' = NoRes
    /\ last' = NoLast
    /\ UNCHANGED <<now, calls, client, rotating, file_cache, hashed, served, held, cur>>
    /\ UNCHANGED remoteVars
    /\ UNCHANGED tbl
    /\ ProducerWrites

\* The producer replaces the contents of an existing report file in place.
ProducerRewrite ==
    /\ writes < MaxWrites
    /\ \E n \in DOMAIN dir \cap ReportNames(rotating), rows \in Contents :
          /\ rows # dir[n].rows
          /\ dir' = [dir EXCEPT ![n] = NewFile(rows, now)]
    /\ writes' = writes + 1
    /\ walk' = NoWalk
    /\ res' = NoRes
    /\ last' = NoLast
    /\ UNCHANGED <<now, calls, client, rotating, file_cache, hashed, served, held, cur>>
    /\ UNCHANGED remoteVars
    /\ UNCHANGED tbl
    /\ ProducerWrites

----------------------------------------------------------------------------
\* A direct call of get_latest_file_with_hash(report_type)

\* os.stat of a file of the directory: name, st_size, st_mtime
StatOf(d, n) == << n, d[n].size, d[n].mtime >>

Resolve ==
    /\ calls > 0
    /\ calls' = calls - 1
    /\ \E c \in ReportType :
       \E listing \in Listings(dir, c) :
         \E out \in {get_latest_file_with_hash(file_cache, dir, now, c, listing)} :
             /\ file_cache' = out.cache
             /\ res' = [ called      |-> TRUE,
                         report_type |-> c,
                         before      |-> file_cache,
                         record      |-> out.record,
                         discovered  |-> out.discovered ]
             /\ hashed' = IF out.discovered /\ out.record # None
                          THEN Some([ stat      |-> StatOf(dir, out.record[1].path),
                                      file_hash |-> out.record[1].file_hash ])
                          ELSE hashed
    /\ last' = NoLast
    /\ UNCHANGED <<dir, now, writes, client, rotating, served, held, walk, cur>>
    /\ UNCHANGED remoteVars
    /\ UNCHANGED tbl
    /\ UNCHANGED raceVars

NextIndex == Tick \/ ProducerAdd \/ ProducerRewrite \/ Resolve

SpecIndex == InitIndex /\ [][NextIndex]_vars

----------------------------------------------------------------------------
\* A request to GET /risk/actions/query.  With a token the client leaves
\* the offset parameter at its default.

TokBadBase64 == << "raw" >>
TokNotJson == b64encode(<< "text" >>)
TokNoOffset == b64encode(<< "json", [ file_hash   |-> << "str", << "sha1", << >> >> >>,
                                      report_type |-> << "str", "actions" >> ] >>)

\* The fingerprint an open client read in the latest response
KnownHashes == IF served = None THEN {} ELSE {served[1].file_hash}

\* Tokens of the client's own making: not base64, not JSON, a JSON object
\* without an offset, and well-formed cursors that no response has carried
ForgedTokens ==
    {TokBadBase64, TokNotJson, TokNoOffset}
        \cup { encode_cursor(Cursor(1, h, "permissions")) : h \in KnownHashes }
        \cup { encode_cursor(Cursor(-1, h, "actions")) : h \in KnownHashes }

Tokens ==
    CASE client.kind = "plain"  -> IF held = None THEN {} ELSE {held}
      [] client.kind = "walker" -> IF walk.active /\ ~walk.done THEN {held} ELSE {}
      [] client.kind = "open"   -> { Some(tok) : tok \in ForgedTokens \cup {TokEmpty} }
                                      \cup (IF held = None THEN {} ELSE {held})

Offsets == IF client.kind = "walker" THEN {0} ELSE 0..MaxOffset

Requests ==
    { [cursor |-> None, limit |-> client.limit, offset |-> off, risk_level |-> client.risk_level] :
        off \in Offsets }
    \cup
    { [cursor |-> tok, limit |-> client.limit, offset |-> off, risk_level |-> client.risk_level] :
        tok \in Tokens, off \in Offsets }

\* What a walker has collected: a request without a token starts a walk, a
\* request with the cursor of the previous response continues it.
WalkAfter(req, out) ==
    IF out.resp.status # 200 THEN NoWalk
    ELSE IF req.cursor = None
         THEN [ active    |-> TRUE,
                file_hash |-> out.resp.file_hash,
                same_hash |-> TRUE,
                full      |-> apply_filters(out.bundle[1].rows, req.risk_level),
                acc       |-> out.resp.data,
                done      |-> ~out.resp.has_more ]
         ELSE [ walk EXCEPT !.same_hash = @ /\ out.resp.file_hash = walk.file_hash,
                            !.acc       = @ \o out.resp.data,
                            !.done      = ~out.resp.has_more ]

Query ==
    /\ calls > 0
    /\ calls' = calls - 1
    /\ \E req \in Requests :
       \E listing1 \in WholeListings(dir) : \E listing2 \in {listing1} :
         \E out \in {query_actions(file_cache, dir, now, req, listing1, listing2)} :
             /\ file_cache' = out.cache
             /\ last' = [ called |-> TRUE,
                          req    |-> req,
                          bundle |-> out.bundle,
                          effective_offset |-> out.effective_offset,
                          resp   |-> out.resp ]
             /\ served' = IF client.kind = "open" /\ out.bundle # None THEN out.bundle ELSE served
             /\ held' = IF out.resp.status = 200 /\ out.resp.cursor # None
                        THEN out.resp.cursor
                        ELSE held
             /\ walk' = IF client.kind = "walker" THEN WalkAfter(req, out) ELSE walk
    /\ res' = NoRes
    /\ UNCHANGED <<dir, now, writes, client, rotating, hashed, cur>>
    /\ UNCHANGED remoteVars
    /\ UNCHANGED tbl
    /\ UNCHANGED raceVars

Next == Tick \/ ProducerAdd \/ ProducerRewrite \/ Query

Spec == Init /\ [][Next]_vars

\* The runs of a client that walks the pages
InitWalk ==
    /\ \E c \in Clients("walker"), r \in {"actions", "crit_actions"} : InitWith(c, r, MaxWalkCalls)
    /\ cur = NoCur

SpecWalk == InitWalk /\ [][Next]_vars

\* The runs of a client that may send any token
InitOpen ==
    /\ \E c \in Clients("open"), r \in {"actions", "crit_actions"} : InitWith(c, r, MaxCalls)
    /\ cur = NoCur

SpecOpen == InitOpen /\ [][Next]_vars

----------------------------------------------------------------------------
\* The cursor codec on its own: a valid cursor is encoded, the token decoded.

\* Fingerprints of bundles of one file, over the names, sizes and
\* modification times of the model
CursorHashes ==
    { combined_hash(<< compute_file_hash(n, NewFile(rows, t)) >>) :
        n \in UNION { ReportNames(c) : c \in ReportType },
        rows \in {ContentA, ContentC},
        t \in 0..MaxTime }

ValidCursors ==
    { Cursor(offset, h, family) :
        offset \in 0..MaxOffset, h \in CursorHashes, family \in {"actions", "permissions"} }

InitCodec ==
    /\ InitWith([limit |-> 1, risk_level |-> "", kind |-> "plain"], "actions", 0)
    /\ \E c \in ValidCursors : cur = [stage |-> "cursor", cursor |-> c]

EncodeCursor ==
    /\ cur.stage = "cursor"
    /\ cur' = [stage |-> "token", cursor |-> cur.cursor, token |-> encode_cursor(cur.cursor)]
    /\ UNCHANGED <<dir, now, writes, calls, client, rotating, file_cache, res, hashed, last, served, held, walk>>
    /\ UNCHANGED remoteVars
    /\ UNCHANGED tbl
    /\ UNCHANGED raceVars

DecodeCursor ==
    /\ cur.stage = "token"
    /\ cur' = [stage |-> "decoded", cursor |-> cur.cursor, token |-> cur.token,
                decoded |-> decode_cursor(cur.token)]
    /\ UNCHANGED <<dir, now, writes, calls, client, rotating, file_cache, res, hashed, last, served, held, walk>>
    /\ UNCHANGED remoteVars
    /\ UNCHANGED tbl
    /\ UNCHANGED raceVars

NextCodec == EncodeCursor \/ DecodeCursor

SpecCursor == InitCodec /\ [][NextCodec]_vars

----------------------------------------------------------------------------
\* Claims about file discovery (SpecIndex)

\* The files of the directory that are candidates of a category
Candidates(d, c) == { n \in DOMAIN d : n.prefix = FILE_PATTERNS[c] }

\* The call that has just returned ran discovery and found a file.
Discovered == res.called /\ res.discovered /\ res.record # None

\* C4: a resolve that performs discovery selects the candidate with the
\* maximum production timestamp, whatever order the directory is listed in.
C4_SelectsMaxTimestamp ==
    Discovered =>
        LET rec == res.record[1]
        IN  /\ rec.path \in Candidates(dir, res.report_type)
            /\ rec.timestamp = rec.path.stamp
            /\ \A n \in Candidates(dir, res.report_type) : n.stamp <= rec.timestamp

\* Discovery chose among two candidates and took the one stamped 2.
C4_Witness ==
    /\ Discovered
    /\ Cardinality(Candidates(dir, res.report_type)) >= 2
    /\ res.record[1].timestamp = 2

\* C5 as claimed: the fingerprint of a file differs from the one the latest
\* discovery computed if and only if its name, size or modification time
\* differs from what that discovery saw.
C5_FingerprintIffStatChanges ==
    hashed # None =>
        \A n \in DOMAIN dir :
            (compute_file_hash(n, dir[n]) # hashed[1].file_hash)
                <=> (StatOf(dir, n) # hashed[1].stat)

\* C10: a resolve that finds a present, unexpired entry returns it without
\* discovery and leaves the cache as it is; on a miss or after expiry the
\* discovered record becomes the category's entry and the entries of the
\* other categories are as visible as before.
C10_HitFrameMissStore ==
    res.called =>
        LET c   == res.report_type
            hit == c \in DOMAIN res.before /\ now < res.before[c].expires
        IN  /\ hit => /\ res.record = Some(res.before[c].value)
                      /\ ~res.discovered
                      /\ file_cache = res.before
            /\ ~hit => /\ res.discovered
                       /\ res.record = None => file_cache = res.before
                       /\ res.record # None =>
                             /\ c \in DOMAIN file_cache
                             /\ file_cache[c].value = res.record[1]
                             /\ file_cache[c].expires = now + TtlTicks
                             /\ \A k \in ReportType \ {c} :
                                  \A t \in now..(MaxTime + TtlTicks) :
                                     cache_get(file_cache, t, k) = cache_get(res.before, t, k)

\* A cache hit returned the cached record although the directory holds a
\* newer file of the category.
C10_Witness ==
    /\ res.called /\ ~res.discovered
    /\ \E n \in Candidates(dir, res.report_type) : n.stamp > res.record[1].timestamp

----------------------------------------------------------------------------
\* Claims about the query endpoint

\* The request that has just been answered carried a token that decodes,
\* and the bundle was built.
Continuing ==
    /\ last.called
    /\ last.req.cursor # None
    /\ decode_cursor(last.req.cursor[1]).ok
    /\ last.bundle # None

\* The cursor inside the submitted token
Submitted == decode_cursor(last.req.cursor[1]).cursor

\* The filtered result of the request that has just been answered
Filtered == apply_filters(last.bundle[1].rows, last.req.risk_level)

\* The first k rows of a sequence (all of them if it has fewer)
FirstRows(rows, k) == SubSeq(rows, 1, IF k < Len(rows) THEN k ELSE Len(rows))

\* The rows from position offset + 1 on
RowsFrom(rows, offset) == SubSeq(rows, offset + 1, Len(rows))

\* C1: a request that submits a token whose fingerprint is not the current
\* bundle's succeeds and returns the page that starts at offset 0 of the new
\* bundle's filtered result.
C1_StaleCursorRestarts ==
    (Continuing /\ Submitted.file_hash # last.bundle[1].file_hash) =>
        /\ last.resp.status = 200
        /\ last.effective_offset = Some(0)
        /\ last.resp.data = FirstRows(Filtered, last.req.limit)
        /\ last.resp.has_more = (Len(Filtered) > last.req.limit)

\* A token issued at a positive offset was submitted after the bundle had
\* changed, and the page at the token's offset would have been another one.
C1_Witness ==
    /\ Continuing
    /\ Submitted.file_hash # last.bundle[1].file_hash
    /\ Submitted.offset > 0
    /\ last.resp.status = 200
    /\ last.resp.data # << >>
    /\ last.resp.data # FirstRows(RowsFrom(Filtered, Submitted.offset), last.req.limit)

\* C9: a response carries a token exactly when has_more is true, and then
\* the token's offset is the effective offset of the request plus the number
\* of rows returned and its fingerprint is the bundle's.
C9_CursorIffHasMore ==
    (last.called /\ last.resp.status = 200) =>
        /\ (last.resp.cursor # None) <=> last.resp.has_more
        /\ last.resp.has_more =>
              LET dec == decode_cursor(last.resp.cursor[1])
              IN  /\ dec.ok
                  /\ dec.cursor.offset = last.effective_offset[1] + Len(last.resp.data)
                  /\ dec.cursor.file_hash = last.bundle[1].file_hash

\* A page that starts at a positive offset is followed by more rows.
C9_Witness ==
    /\ last.called
    /\ last.resp.status = 200
    /\ last.resp.has_more
    /\ last.effective_offset[1] > 0
    /\ last.resp.cursor # None

\* C3 as claimed: a bundle with the fingerprint of the bundle of the previous
\* response gives the same rows under every filter.
C3_EqualFingerprintsSameRows ==
    [][ ( /\ served # None
          /\ last'.called
          /\ last'.bundle # None
          /\ last'.bundle[1].file_hash = served[1].file_hash )
        => \A risk \in {"", "high"} :
              apply_filters(last'.bundle[1].rows, risk) = apply_filters(served[1].rows, risk) ]_vars

\* C7 as claimed: a request whose token carries the current bundle's
\* fingerprint is answered as the request without a token and with the
\* token's offset as its offset parameter would be.
C7_ContinuationAsFresh ==
    (Continuing /\ Submitted.file_hash = last.bundle[1].file_hash) =>
        LET fresh == [last.req EXCEPT !.cursor = None, !.offset = Submitted.offset]
        IN  /\ valid_params(fresh)
            /\ last.resp = query_page(last.bundle[1], fresh).resp

\* C8 as claimed: a token that does not decode is answered with the
\* invalid-cursor error as a client error, without page or cursor.
C8_InvalidCursorClientError ==
    (last.called /\ last.req.cursor # None /\ ~decode_cursor(last.req.cursor[1]).ok) =>
        /\ last.resp.error = "CursorError"
        /\ last.resp.status \in 400..499

----------------------------------------------------------------------------
\* Claims about the cursor codec (SpecCursor)

----------------------------------------------------------------------------
\* Claims about a walk through the pages (SpecWalk)

\* The pages collected so far are the first rows of the filtered result,
\* all of them once the walk has ended and not yet all of them before.
WalkExhaustive ==
    /\ walk.acc = FirstRows(walk.full, Len(walk.acc))
    /\ walk.done => walk.acc = walk.full
    /\ ~walk.done => Len(walk.acc) < Len(walk.full)

\* C2 as claimed: with the same filters and the files unchanged since the
\* walk began, the pages of a walk make up the filtered result, every row
\* once and in order.
C2_WalkExhaustive == walk.active => WalkExhaustive

\* C2 as amended: the same, for the walks all of whose responses carry the
\* fingerprint of the first.
C2_WalkExhaustiveSameFingerprint == (walk.active /\ walk.same_hash) => WalkExhaustive

\* A walk of more than one page has ended, all its responses carrying the
\* same fingerprint.
C2_Witness ==
    /\ walk.active
    /\ walk.same_hash
    /\ walk.done
    /\ last.called
    /\ last.req.cursor # None
    /\ Len(walk.acc) > client.limit

----------------------------------------------------------------------------
\* graph_client.py: the remote folder
\*
\* The operators below thread the part of the state they may change, the
\* world w = [cache_dir, names_cache, wire], and a client object g; their
\* inputs are e = [settings, remote, now, up], where up tells whether the
\* remote service answers the requests of this call.  A result is either a
\* raised exception (err) or a returned value (val).

GraphTtlTicks == GraphCacheTtl * TicksPerSecond

\* GraphClient.__init__: a new client has empty token and listing caches
GraphClient == [token |-> None, listing |-> None]

Raise(kind, g, w) == [err |-> Some(kind), g |-> g, w |-> w]

Return(val, g, w) == [err |-> None, val |-> val, g |-> g, w |-> w]

\* F applied to the value of v: the result of a call, bound once
With(v, F(_)) == CHOOSE y \in { F(x) : x \in {v} } : TRUE

\* GraphClient._get_token
get_token(e, g, w) ==
    IF g.token # None THEN Return(g.token[1], g, w)
    ELSE IF ~e.settings.creds THEN Raise("RuntimeError", g, w)
    ELSE LET sent == [w EXCEPT !.wire.auth = Append(@, [at |-> e.now, ok |-> e.up])]
         IN  IF ~e.up THEN Raise("HTTPError", g, sent)
             ELSE Return("token", [g EXCEPT !.token = Some("token")], sent)

\* The children of the remote folder, as the listing request returns them
RemoteListing(r) == OldestFirst(DOMAIN r)

\* GraphClient.list_files
list_files(e, g, w) ==
    IF g.listing # None THEN Return(g.listing[1], g, w)
    ELSE With(get_token(e, g, w), LAMBDA tok :
             IF tok.err # None THEN tok
             ELSE IF ~e.settings.folder_path THEN Raise("RuntimeError", tok.g, tok.w)
             ELSE LET sent  == [tok.w EXCEPT !.wire.list = Append(@, [at |-> e.now, ok |-> e.up])]
                      files == RemoteListing(e.remote)
                  IN  IF ~e.up THEN Raise("HTTPError", tok.g, sent)
                      ELSE Return(files, [tok.g EXCEPT !.listing = Some(files)], sent))

InSeq(x, seq) == \E i \in 1..Len(seq) : seq[i] = x

\* target.write_bytes(response.content)
WriteFile(d, name, file) == [ n \in DOMAIN d \cup {name} |-> IF n = name THEN file ELSE d[n] ]

\* A copy counts as fresh whatever its age: target.exists() alone.
FreshCopy_any_age(e, w, filename) == filename \in DOMAIN w.cache_dir

\* target.exists() and (time.time() - target.stat().st_mtime) < graph_cache_ttl_seconds
FreshCopy(e, w, filename) ==
    /\ filename \in DOMAIN w.cache_dir
    /\ e.now - w.cache_dir[filename].mtime < GraphTtlTicks

\* GraphClient.ensure_cached
ensure_cached(e, g, w, filename) ==
    IF FreshCopy(e, w, filename) THEN Return(filename, g, w)
    ELSE With(list_files(e, g, w), LAMBDA ls :
             IF ls.err # None THEN ls
             ELSE IF ~InSeq(filename, ls.val) THEN Raise("FileNotFoundError", ls.g, ls.w)
             ELSE LET sent == [ls.w EXCEPT !.wire.download = Append(@, << e.now, filename >>)]
                  IN  IF ~e.up THEN Raise("HTTPError", ls.g, sent)
                      ELSE Return(filename, ls.g,
                                  [sent EXCEPT !.cache_dir =
                                      WriteFile(@, filename, NewFile(e.remote[filename].rows, e.now))]))

\* iter_remote_files: one new client ensures the copies of the names in turn
RECURSIVE ensure_all(_, _, _, _)
ensure_all(e, g, w, names) ==
    IF names = << >> THEN Return(<< >>, g, w)
    ELSE With(ensure_cached(e, g, w, Head(names)), LAMBDA one :
             IF one.err # None THEN one
             ELSE With(ensure_all(e, one.g, one.w, Tail(names)), LAMBDA rest :
                      IF rest.err # None THEN rest
                      ELSE Return(<< one.val >> \o rest.val, rest.g, rest.w)))

iter_remote_files(e, w, names) == ensure_all(e, GraphClient, w, names)

----------------------------------------------------------------------------
\* file_index.py: discovery from both sources

\* _list_all_remote_names: the names of the remote folder, from the module's
\* cache when it holds names younger than the time-to-live
list_all_remote_names(e, w) ==
    IF e.settings.local_path THEN Return(<< >>, GraphClient, w)
    ELSE IF /\ w.names_cache.names # None
            /\ w.names_cache.names[1] # << >>
            /\ e.now - w.names_cache.timestamp < GraphTtlTicks
         THEN Return(w.names_cache.names[1], GraphClient, w)
         ELSE With(list_files(e, GraphClient, w), LAMBDA ls :
                  IF ls.err # None THEN ls
                  ELSE Return(ls.val, ls.g,
                              [ls.w EXCEPT !.names_cache =
                                  [names |-> Some(ls.val), timestamp |-> e.now]]))

\* _discover_remote_files: the local copies of the remote files that match
\* the pattern, each with its parsed timestamp
discover_remote_files(e, w, pattern) ==
    IF e.settings.local_path THEN Return(<< >>, GraphClient, w)
    ELSE With(list_all_remote_names(e, w), LAMBDA all :
             IF all.err # None THEN all
             ELSE LET names == SelectSeq(all.val, LAMBDA n : PatternMatch(pattern, n))
                  IN  IF names = << >> THEN Return(<< >>, all.g, all.w)
                      ELSE With(iter_remote_files(e, all.w, names), LAMBDA files :
                               IF files.err # None THEN files
                               ELSE Return([ i \in 1..Len(files.val) |->
                                               [ path |-> files.val[i],
                                                 ts   |-> parse_timestamp(files.val[i]) ] ],
                                           files.g, files.w)))

\* _discover_local_files, lines 61-76: the folder is the one of the settings
\* or else the one ONEDRIVE_LOCAL_PATH names; without a folder, or with a
\* folder that does not exist, there are no matches
local_matches(e, pattern, listing) ==
    IF ~(e.settings.local_path \/ e.settings.env_path) THEN << >>
    ELSE IF ~e.settings.dir_exists THEN << >>
    ELSE discover_local_files(pattern, listing)

\* _discover_files: local matches first, remote matches when there are none
discover_files_all(e, w, report_type, listing, d) ==
    LET pattern == FILE_PATTERNS[report_type]
        local   == local_matches(e, pattern, listing)
    IN  IF local # << >>
        THEN Return(discover_files(report_type, listing, d), GraphClient, w)
        ELSE With(discover_remote_files(e, w, pattern), LAMBDA rem :
                 IF rem.err # None THEN rem
                 ELSE IF rem.val = << >> THEN Return(None, rem.g, rem.w)
                 ELSE LET first == SortByTsDesc(rem.val)[1]
                      IN  Return(Some([ report_type |-> report_type,
                                        path        |-> first.path,
                                        timestamp   |-> first.ts,
                                        file_hash   |-> compute_file_hash(first.path,
                                                           rem.w.cache_dir[first.path]) ]),
                                 rem.g, rem.w))

\* A resolve that remembers that a category has no file
get_latest_file_caches_failure(e, w, cache, report_type, listing, d) ==
    LET cached == cache_get(cache, e.now, report_type)
    IN  IF cached # None
        THEN [err |-> IF cached[1].path = None THEN Some("FileNotFoundError") ELSE None,
              record |-> IF cached[1].path = None THEN None ELSE cached,
              cache |-> cache, w |-> w, discovered |-> FALSE]
        ELSE With(discover_files_all(e, w, report_type, listing, d), LAMBDA found :
                 IF found.err # None
                 THEN [err |-> found.err, record |-> None, cache |-> cache, w |-> found.w,
                       discovered |-> TRUE]
                 ELSE IF found.val = None
                 THEN [err |-> Some("FileNotFoundError"), record |-> None,
                       cache |-> cache_set(cache, e.now, report_type,
                                           [report_type |-> report_type, path |-> None]),
                       w |-> found.w, discovered |-> TRUE]
                 ELSE [err |-> None, record |-> found.val,
                       cache |-> cache_set(cache, e.now, report_type, found.val[1]),
                       w |-> found.w, discovered |-> TRUE])

\* get_latest_file / get_latest_file_with_hash with both sources: err is the
\* exception raised, if any; the record, the FileIndex cache and the world
\* afterwards; whether discovery ran
get_latest_file(e, w, cache, report_type, listing, d) ==
    LET cached == cache_get(cache, e.now, report_type)
    IN  IF cached # None
        THEN [err |-> None, record |-> cached, cache |-> cache, w |-> w, discovered |-> FALSE]
        ELSE With(discover_files_all(e, w, report_type, listing, d), LAMBDA found :
                 IF found.err # None
                 THEN [err |-> found.err, record |-> None, cache |-> cache, w |-> found.w,
                       discovered |-> TRUE]
                 ELSE IF found.val = None
                 THEN [err |-> Some("FileNotFoundError"), record |-> None, cache |-> cache,
                       w |-> found.w, discovered |-> TRUE]
                 ELSE [err |-> None, record |-> found.val,
                       cache |-> cache_set(cache, e.now, report_type, found.val[1]),
                       w |-> found.w, discovered |-> TRUE])

----------------------------------------------------------------------------
\* Runs with any configuration of the sources

\* A directory without report files
NoReports == [ n \in {OtherName} |-> NewFile(<< >>, 0) ]

\* The remote folders of the model: empty, or one report of each category
RemoteFolder ==
    [ n \in { [prefix |-> FILE_PATTERNS[c], stamp |-> 1] : c \in ReportType } |->
        [rows |-> IF n.prefix = FILE_PATTERNS["actions"] THEN ContentA ELSE ContentC] ]

\* The configurations: a local folder through the settings, through the
\* environment only, or none; the folder existing or not; the credentials
\* and the remote folder path set or not
Configurations ==
    { s \in [ local_path : BOOLEAN, env_path : BOOLEAN, dir_exists : BOOLEAN,
              creds : BOOLEAN, folder_path : BOOLEAN, api_key : {"test-key"} ] :
        /\ s.local_path => s.env_path
        /\ s.dir_exists => s.env_path }

InitSources ==
    /\ \E s \in Configurations, r \in {<< >>, RemoteFolder} : InitRemoteVars(s, r)
    /\ dir \in (IF settings.dir_exists THEN {InitDir, NoReports} ELSE {<< >>})
    /\ rotating = "actions"
    /\ now = 0
    /\ writes = 0
    /\ calls = MaxCalls
    /\ client = [limit |-> 1, risk_level |-> "", kind |-> "plain"]
    /\ file_cache = << >>
    /\ res = NoRes
    /\ hashed = None
    /\ last = NoLast
    /\ served = None
    /\ held = None
    /\ walk = NoWalk
    /\ cur = NoCur

World == [cache_dir |-> cache_dir, names_cache |-> names_cache, wire |-> wire]

\* A call of get_latest_file(c)
ResolveOf(c) ==
    /\ calls > 0
    /\ calls' = calls - 1
    /\ \E up \in BOOLEAN :
       \E out \in { get_latest_file([settings |-> settings, remote |-> remote, now |-> now, up |-> up],
                                    World, file_cache, c, OldestFirst(DOMAIN dir), dir) } :
             /\ file_cache' = out.cache
             /\ cache_dir' = out.w.cache_dir
             /\ names_cache' = out.w.names_cache
             /\ wire' = out.w.wire
             /\ res' = [ called      |-> TRUE,
                         report_type |-> c,
                         up          |-> up,
                         before      |-> file_cache,
                         world       |-> World,
                         err         |-> out.err,
                         record      |-> out.record,
                         discovered  |-> out.discovered ]
    /\ last' = NoLast
    /\ UNCHANGED <<dir, now, writes, client, rotating, hashed, served, held, walk, cur, settings, remote>>
    /\ UNCHANGED raceVars
    /\ UNCHANGED tbl

\* A call of get_latest_file(report_type)
ResolveAny == \E c \in ReportType : ResolveOf(c)

\* The remote folder changes: a file is removed from it
RemoteRemove ==
    /\ writes < MaxWrites
    /\ writes' = writes + 1
    /\ \E n \in DOMAIN remote : remote' = [ m \in DOMAIN remote \ {n} |-> remote[m] ]
    /\ res' = NoRes
    /\ last' = NoLast
    /\ UNCHANGED <<dir, now, calls, client, rotating, file_cache, hashed, served, held, walk, cur,
                   settings, cache_dir, names_cache, wire>>
    /\ UNCHANGED raceVars
    /\ UNCHANGED tbl

\* routers/health.py

\* The categories in the order FILE_PATTERNS lists them
ReportTypeOrder == << "actions", "crit_actions", "perms", "crit_perms" >>

StatusNotReady == 503

\* ready: the categories are resolved in turn; FileNotFoundError becomes
\* HTTPException(503), any other exception is not caught
RECURSIVE ready_from(_, _, _, _, _, _)
ready_from(e, w, cache, listing, d, types) ==
    IF types = << >>
    THEN [status |-> 200, err |-> None, failed |-> None, cache |-> cache, w |-> w]
    ELSE With(get_latest_file(e, w, cache, Head(types), listing, d), LAMBDA out :
             IF out.err = None
             THEN ready_from(e, out.w, out.cache, listing, d, Tail(types))
             ELSE [ status |-> IF out.err = Some("FileNotFoundError")
                               THEN StatusNotReady ELSE StatusOfUnhandled,
                    err    |-> out.err,
                    failed |-> Some(Head(types)),
                    cache  |-> out.cache,
                    w      |-> out.w ])

ready(e, w, cache, listing, d) == ready_from(e, w, cache, listing, d, ReportTypeOrder)

\* A request to GET /health/ready
Ready ==
    /\ calls > 0
    /\ calls' = calls - 1
    /\ \E up \in BOOLEAN :
       \E out \in { ready([settings |-> settings, remote |-> remote, now |-> now, up |-> up],
                          World, file_cache, OldestFirst(DOMAIN dir), dir) } :
             /\ file_cache' = out.cache
             /\ cache_dir' = out.w.cache_dir
             /\ names_cache' = out.w.names_cache
             /\ wire' = out.w.wire
             /\ last' = [ called   |-> TRUE,
                          endpoint |-> "/health/ready",
                          up       |-> up,
                          status   |-> out.status,
                          err      |-> out.err,
                          failed   |-> out.failed ]
    /\ res' = NoRes
    /\ UNCHANGED <<dir, now, writes, client, rotating, hashed, served, held, walk, cur, settings, remote>>
    /\ UNCHANGED raceVars
    /\ UNCHANGED tbl

NextSources == Tick \/ RemoteRemove \/ ResolveAny \/ Ready

SpecSources == InitSources /\ [][NextSources]_vars

----------------------------------------------------------------------------
\* Claims about the sources of discovery (SpecSources)

\* A local source directory is configured, through the settings or through
\* the environment.
LocalConfigured == settings.local_path \/ settings.env_path

\* The local directory holds a file of the category.
LocalCandidate(c) == settings.dir_exists /\ Candidates(dir, c) # {}

\* C11 as claimed: with a local source directory configured a resolve sends
\* no request to the remote service, and without a local file of the
\* category it fails with the no-file-found error.
C11_LocalPriority ==
    (res.called /\ LocalConfigured) =>
        /\ wire = res.world.wire
        /\ (res.discovered /\ ~LocalCandidate(res.report_type)) =>
               res.err = Some("FileNotFoundError")

\* The readiness probe has just answered.
Probed == last.called /\ last.endpoint = "/health/ready"

\* C12 as claimed: the probe answers ok only if all four categories
\* resolve, and a category without a usable file makes it answer not-ready
\* (503), never an internal error.
C12_NotReadyNeverInternal ==
    Probed =>
        /\ last.status = 200 =>
              \A c \in ReportType : cache_get(file_cache, now, c) # None
        /\ last.status # 200 => last.status = StatusNotReady

----------------------------------------------------------------------------
\* Concurrent requests. The handlers are plain functions, which the framework
\* runs on worker threads; file_index.py takes no lock. A call of
\* get_latest_file_with_hash is three steps, between which other threads and
\* the producer can run: the cache lookup, the discovery, the store.

NumThreads == 3

Threads == 1..NumThreads

\* The candidate of category c with the greatest production timestamp.
Newest(d, c) ==
    CHOOSE n \in { m \in DOMAIN d : m.prefix = FILE_PATTERNS[c] } :
        \A m \in DOMAIN d : m.prefix = n.prefix => m.stamp <= n.stamp

\* record = _file_cache.get(report_type); the calls are numbered in the order
\* of their lookups
Lookup(t) ==
    /\ t \in Threads \ DOMAIN threads
    /\ \A u \in Threads : u < t => u \in DOMAIN threads
    /\ LET cached == cache_get(file_cache, now, rotating)
           after  == [pc |-> IF cached # None THEN "done" ELSE "miss", found |-> None]
       IN  /\ threads' = [ u \in DOMAIN threads \cup {t} |-> IF u = t THEN after ELSE threads[u] ]
           /\ race' = IF cached = None /\ InFlight = {}
                      THEN NoRace
                      ELSE [race EXCEPT !.overlap = @ \/ cached = None]
    /\ UNCHANGED <<dir, now, writes, calls, client, rotating, file_cache, res, hashed, last, served, held,
                   walk, cur>>
    /\ UNCHANGED remoteVars
    /\ UNCHANGED tbl

\* record = _discover_files(report_type), and the raise when it is None
Discover(t) ==
    /\ t \in DOMAIN threads
    /\ threads[t].pc = "miss"
    /\ \E listing \in WholeListings(dir) :
          LET found == discover_files(rotating, listing, dir)
          IN  threads' = [threads EXCEPT ![t] = [pc    |-> IF found = None THEN "done" ELSE "found",
                                                 found |-> found]]
    /\ race' = [race EXCEPT !.discovered = TRUE]
    /\ UNCHANGED <<dir, now, writes, calls, client, rotating, file_cache, res, hashed, last, served, held,
                   walk, cur>>
    /\ UNCHANGED remoteVars
    /\ UNCHANGED tbl

\* _file_cache[report_type] = record
Store(t) ==
    /\ t \in DOMAIN threads
    /\ threads[t].pc = "found"
    /\ file_cache' = cache_set(file_cache, now, rotating, threads[t].found[1])
    /\ threads' = [threads EXCEPT ![t] = [pc |-> "done", found |-> None]]
    /\ race' = [race EXCEPT !.stores = @ + 1,
                            !.newest = Some(StatOf(dir, Newest(dir, rotating)))]
    /\ UNCHANGED <<dir, now, writes, calls, client, rotating, res, hashed, last, served, held, walk, cur>>
    /\ UNCHANGED remoteVars
    /\ UNCHANGED tbl

InitRace ==
    /\ InitWith([limit |-> 1, risk_level |-> "", kind |-> "plain"], "actions", 0)
    /\ cur = NoCur

NextRace ==
    \/ Tick
    \/ ProducerAdd
    \/ ProducerRewrite
    \/ \E t \in Threads : Lookup(t)
    \/ \E t \in Threads : Discover(t)
    \/ \E t \in Threads : Store(t)

SpecRace == InitRace /\ [][NextRace]_vars

\* The record a resolve stores when it runs alone and the newest candidate of
\* category c has the stat st: name, size, modification time.
SequentialRecord(st, c) ==
    [ report_type |-> c,
      path        |-> st[1],
      timestamp   |-> st[1].stamp,
      file_hash   |-> << st[1], st[2], st[3] \div TicksPerSecond >> ]

\* Two or more calls missed the cache while another was under way, each ran
\* its own discovery and stored, and all of them have returned.
RaceOver == race.overlap /\ race.stores >= 2 /\ InFlight = {}

----------------------------------------------------------------------------
\* datasets.py: apply_filters on a frame with every filterable column.
\* A cell is None (null) or Some(value). The user columns hold strings as
\* sequences of characters, the other columns hold atoms.

MaxRows == 2

WideRow(uid, uname, role, risk, system, action, executed) ==
    [ UserID |-> uid, UserName |-> uname, RoleID |-> role, RiskLevel |-> risk,
      System |-> system, Action |-> action, LastExecutedOn |-> executed ]

FrameRows ==
    { WideRow(Some(<<"u", "1">>), Some(<<"A", "b">>), Some("R1"), Some("High"), Some("SAP"),
              Some("Approve"), Some("2024-01-01")),
      WideRow(None, Some(<<"a", "b">>), Some("r1"), Some("HIGH"), Some("sap"),
              Some("Pay"), Some("2024-01-02")),
      WideRow(Some(<<"a", "b">>), None, None, Some("low"), Some("SAP"),
              None, Some("n/a")),
      WideRow(Some(<<"u", "2">>), Some(<<"b", ".">>), Some("R2"), Some("High"), None,
              Some("approve"), None),
      WideRow(None, None, Some("R1"), None, Some("sap"),
              Some("Approve"), Some("2024-01-01")) }

Frames == UNION { [1..n -> FrameRows] : n \in 0..MaxRows }

\* The query parameters as the handler passes them: None when the parameter
\* is not given, dates already parsed by _parse_date.
FilterSets ==
    [ user       : { None, Some(<< >>), Some(<<"A", "b">>), Some(<<"b">>), Some(<<"u", ".">>) },
      role       : { None, Some("r1") },
      risk_level : { None, Some(""), Some("High"), Some("LOW") },
      system     : { None, Some("sap") },
      action     : { None, Some("Approve") },
      date_from  : { None, Some(1), Some(2) },
      date_to    : { None, Some(1) } ]

\* Kleene values of a boolean expression of the frame library
T == "true"
F == "false"
N == "null"

LowerChar(c) ==
    CASE c = "A" -> "a"
      [] c = "B" -> "b"
      [] c = "U" -> "u"
      [] OTHER   -> c

\* str.lower() and Expr.str.to_lowercase() on a string of characters
to_lowercase(str) == [ i \in DOMAIN str |-> LowerChar(str[i]) ]

\* Expr.str.contains(pattern) with its default literal=False: the pattern
\* is a regular expression, searched for anywhere in the string; of the
\* syntax of regular expressions the model has the dot, which matches any
\* character.
str_contains(str, pattern) ==
    \E i \in 1..(Len(str) - Len(pattern) + 1) :
        \A j \in 1..Len(pattern) : pattern[j] = "." \/ pattern[j] = str[i + j - 1]

\* pl.col(col).cast(pl.Utf8).str.to_lowercase().str.contains(term)
contains_expr(cell, term) ==
    IF cell = None THEN N
    ELSE IF str_contains(to_lowercase(cell[1]), term) THEN T ELSE F

\* pl.any_horizontal: true when one operand is true, else null when one is null
any_horizontal(values) ==
    IF \E i \in DOMAIN values : values[i] = T THEN T
    ELSE IF \E i \in DOMAIN values : values[i] = N THEN N
    ELSE F

\* The comparison with the case kept: cell == value.
eq_expr_case_sensitive(cell, value) ==
    IF cell = None THEN N
    ELSE IF cell[1] = value THEN T ELSE F

\* pl.col(col).cast(pl.Utf8).str.to_lowercase() == value.lower()
eq_expr(cell, value) ==
    IF cell = None THEN N
    ELSE IF Lower(cell[1]) = Lower(value) THEN T ELSE F

\* The dates the model's cells spell, in days
DateOf == [ d \in {"2024-01-01", "2024-01-02"} |-> IF d = "2024-01-01" THEN 1 ELSE 2 ]

\* pl.col("Last Executed On").str.strptime(pl.Date, strict=False): null for
\* a null cell and for a string that is no date
strptime(cell) ==
    IF cell = None THEN None
    ELSE IF cell[1] \in DOMAIN DateOf THEN Some(DateOf[cell[1]]) ELSE None

ge_expr(parsed, day) == IF parsed = None THEN N ELSE IF parsed[1] >= day THEN T ELSE F

le_expr(parsed, day) == IF parsed = None THEN N ELSE IF parsed[1] <= day THEN T ELSE F

\* if user: / if role: ... a parameter that is None or empty adds no expression
Truthy(param) == param # None /\ param[1] # ""

\* if user: the same for the string of characters
TruthyChars(param) == param # None /\ Len(param[1]) > 0

\* exprs: the expressions apply_filters appends, in its order, by name
exprs(f) ==
    (IF TruthyChars(f.user) THEN <<"user">> ELSE << >>)
    \o (IF Truthy(f.role) THEN <<"role">> ELSE << >>)
    \o (IF Truthy(f.risk_level) THEN <<"risk_level">> ELSE << >>)
    \o (IF Truthy(f.system) THEN <<"system">> ELSE << >>)
    \o (IF Truthy(f.action) THEN <<"action">> ELSE << >>)
    \o (IF f.date_from # None THEN <<"date_from">> ELSE << >>)
    \o (IF f.date_to # None THEN <<"date_to">> ELSE << >>)

\* The value of the expression of one filter on one row
expr_value(name, f, row) ==
    CASE name = "user" ->
            any_horizontal(<< contains_expr(row.UserID, to_lowercase(f.user[1])),
                              contains_expr(row.UserName, to_lowercase(f.user[1])) >>)
      [] name = "role"       -> eq_expr(row.RoleID, f.role[1])
      [] name = "risk_level" -> eq_expr(row.RiskLevel, f.risk_level[1])
      [] name = "system"     -> eq_expr(row.System, f.system[1])
      [] name = "action"     -> eq_expr(row.Action, f.action[1])
      [] name = "date_from"  -> ge_expr(strptime(row.LastExecutedOn), f.date_from[1])
      [] name = "date_to"    -> le_expr(strptime(row.LastExecutedOn), f.date_to[1])

\* for expr in exprs: lf = lf.filter(expr); a filter keeps the rows on which
\* its expression is true
RECURSIVE filter_each(_, _, _)
filter_each(lf, es, f) ==
    IF es = << >> THEN lf
    ELSE filter_each(SelectSeq(lf, LAMBDA row : expr_value(es[1], f, row) = T), Tail(es), f)

\* apply_filters with all its parameters
apply_all_filters(lf, f) == filter_each(lf, exprs(f), f)

\* _combine_frames: report_label
report_label(canonical_report) ==
    IF canonical_report \in {"actions", "crit_actions"} THEN "actions" ELSE "permissions"

InitFilter ==
    /\ InitWith([limit |-> 1, risk_level |-> "", kind |-> "plain"], "actions", 0)
    /\ cur = NoCur

\* A query with filters f and limit k on a bundle whose frame is lf: the
\* filtered frame and the first page of the response.
ApplyFilters ==
    /\ tbl.stage = "none"
    /\ \E lf \in Frames, f \in FilterSets, k \in 1..MaxLimit :
          \E out \in { apply_all_filters(lf, f) } :
             tbl' = [ stage |-> "filtered", lf |-> lf, filters |-> f, limit |-> k, out |-> out,
                      page |-> paginate_collect(out, k, 0).rows,
                      report_type |-> report_label("actions") ]
    /\ UNCHANGED <<dir, now, writes, calls, client, rotating, file_cache, res, hashed, last, served, held,
                   walk, cur>>
    /\ UNCHANGED remoteVars
    /\ UNCHANGED raceVars

NextFilter == ApplyFilters

SpecFilter == InitFilter /\ [][NextFilter]_vars

Filtered14 == tbl.stage = "filtered"

\* A row satisfies an exact-match filter when the cell of the filter's column
\* is, case-insensitively, the whole filter value.
ExactMatch(cell, param) == Truthy(param) => (cell # None /\ Lower(cell[1]) = Lower(param[1]))

\* A row satisfies every filter the query supplies.
SatisfiesAll(row, f) ==
    /\ TruthyChars(f.user) => expr_value("user", f, row) = T
    /\ ExactMatch(row.RoleID, f.role)
    /\ ExactMatch(row.RiskLevel, f.risk_level)
    /\ ExactMatch(row.System, f.system)
    /\ ExactMatch(row.Action, f.action)
    /\ f.date_from # None => (strptime(row.LastExecutedOn) # None
                               /\ strptime(row.LastExecutedOn)[1] >= f.date_from[1])
    /\ f.date_to # None => (strptime(row.LastExecutedOn) # None
                             /\ strptime(row.LastExecutedOn)[1] <= f.date_to[1])

\* C14: the filtered frame holds, in the order of the frame, exactly the rows
\* that satisfy every supplied filter, an absent or empty filter adding no
\* constraint; the page of a query with a risk level filter and limit k has
\* at most k rows, each with that risk level up to case, and the response
\* names the family actions.
C14_FiltersConjoined ==
    Filtered14 =>
        /\ tbl.out = SelectSeq(tbl.lf, LAMBDA row : SatisfiesAll(row, tbl.filters))
        /\ Len(tbl.page) <= tbl.limit
        /\ Truthy(tbl.filters.risk_level) =>
              \A i \in DOMAIN tbl.page :
                 Lower(tbl.page[i].RiskLevel[1]) = Lower(tbl.filters.risk_level[1])
        /\ tbl.report_type = "actions"

\* Two filters were supplied, one row of the frame satisfies both and is kept,
\* another satisfies only one of them and is dropped; the kept row matches
\* the filter value up to case only.
C14_Witness ==
    /\ Filtered14
    /\ Truthy(tbl.filters.risk_level) /\ Truthy(tbl.filters.role)
    /\ Len(tbl.out) = 1 /\ Len(tbl.lf) = 2
    /\ tbl.out[1].RiskLevel # tbl.filters.risk_level
    /\ \E i \in DOMAIN tbl.lf :
          /\ ExactMatch(tbl.lf[i].RiskLevel, tbl.filters.risk_level)
          /\ ~ExactMatch(tbl.lf[i].RoleID, tbl.filters.role)

\* The term occurs in the string as it is written, character by character.
LiteralSubstring(term, str) ==
    \E i \in 1..(Len(str) - Len(term) + 1) : \A j \in 1..Len(term) : term[j] = str[i + j - 1]

\* The term occurs, up to case, in one of the user-identifying columns.
TermInUserColumns(term, row) ==
    \E cell \in { row.UserID, row.UserName } :
        cell # None /\ LiteralSubstring(to_lowercase(term), to_lowercase(cell[1]))

\* The query supplies the user filter and no other.
UserFilterOnly ==
    /\ Filtered14
    /\ TruthyChars(tbl.filters.user)
    /\ exprs(tbl.filters) = <<"user">>

\* C15 as claimed: the user filter keeps a row if and only if the term occurs,
\* up to case, as a literal substring of User ID or of User Name, a null in
\* one of the columns notwithstanding.
C15_UserFilterLiteralSubstring ==
    UserFilterOnly =>
        tbl.out = SelectSeq(tbl.lf, LAMBDA row : TermInUserColumns(tbl.filters.user[1], row))

----------------------------------------------------------------------------
\* The routes of the application and the API key dependency

\* require_api_key: None when the request may proceed, else the status of the
\* HTTPException it raises
require_api_key(s, api_key) ==
    IF s.api_key = "" THEN Some(503)
    ELSE IF api_key = None \/ api_key[1] = "" \/ api_key[1] # s.api_key THEN Some(401)
    ELSE None

\* The endpoints that serve data of the reports
Routes == { "/risk/actions/query", "/risk/actions/summary", "/meta/schema", "/meta/facets" }

\* dependencies= of the router an endpoint belongs to; the application itself
\* declares none
RouterDependencies ==
    [ endpoint \in Routes |->
        IF endpoint \in { "/risk/actions/query", "/risk/actions/summary" }
        THEN << "require_api_key" >>
        ELSE << >> ]

\* permissions_bundle = _combine_frames(["perms", "crit_perms"])
permissions_bundle(cache, d, t, listing1, listing2) ==
    LET r1 == get_latest_file_with_hash(cache, d, t, "perms", listing1)
    IN  IF r1.record = None
        THEN [ok |-> FALSE, cache |-> r1.cache]
        ELSE LET r2 == get_latest_file_with_hash(r1.cache, d, t, "crit_perms", listing2)
             IN  IF r2.record = None
                 THEN [ok |-> FALSE, cache |-> r2.cache]
                 ELSE [ ok          |-> TRUE,
                        cache       |-> r2.cache,
                        rows        |-> load_rows(d, r1.record[1]) \o load_rows(d, r2.record[1]),
                        file_hash   |-> combined_hash(<< r1.record[1].file_hash,
                                                         r2.record[1].file_hash >>),
                        report_type |-> report_label("perms") ]

\* The columns of the model's frames by their canonical names, lower-cased
ColumnOf ==
    [ key \in { "user name", "risk level" } |->
        IF key = "user name" THEN "UserName" ELSE "RiskLevel" ]

\* What a handler leaves: the cache, the status, whether a bundle was asked
\* for, and the data of the response.
Handled(cache, status, core, data) ==
    [cache |-> cache, status |-> status, core |-> core, data |-> data]

\* group_by(column).agg(pl.len()): the number of rows per value
CountBy(rows, column) ==
    { [value |-> v, count |-> Cardinality({ i \in DOMAIN rows : rows[i][column] = v })] :
        v \in { rows[i][column] : i \in DOMAIN rows } }

\* get_schema: infer_schema of the two frames joined; every frame of the
\* model has the same columns, so the schema cache of the handler always
\* holds this value
get_schema(cache, d, t, listing) ==
    LET actions == actions_bundle(cache, d, t, listing, listing)
    IN  IF ~actions.ok THEN Handled(actions.cache, StatusOfUnhandled, TRUE, None)
        ELSE LET permissions == permissions_bundle(actions.cache, d, t, listing, listing)
             IN  IF ~permissions.ok THEN Handled(permissions.cache, StatusOfUnhandled, TRUE, None)
                 ELSE Handled(permissions.cache, 200, TRUE,
                              Some({ "UserName", "RiskLevel", "IsCritical", "ReportType" }))

\* get_facets: _resolve_column, then the counts per value over both bundles;
\* n is at least the number of values
get_facets(cache, d, t, listing, column) ==
    IF column \notin DOMAIN ColumnOf THEN Handled(cache, 400, FALSE, None)
    ELSE
    LET actions == actions_bundle(cache, d, t, listing, listing)
    IN  IF ~actions.ok THEN Handled(actions.cache, StatusOfUnhandled, TRUE, None)
        ELSE LET permissions == permissions_bundle(actions.cache, d, t, listing, listing)
             IN  IF ~permissions.ok THEN Handled(permissions.cache, StatusOfUnhandled, TRUE, None)
                 ELSE Handled(permissions.cache, 200, TRUE,
                              Some(CountBy(actions.rows \o permissions.rows, ColumnOf[column])))

\* summary_actions without filters: the groupby check, then the counts per
\* group of the actions bundle; top is at least the number of groups
summary_actions(cache, d, t, listing, groupby) ==
    IF groupby \notin { "User Name", "Risk Level" } THEN Handled(cache, 400, FALSE, None)
    ELSE
    LET bundle == actions_bundle(cache, d, t, listing, listing)
    IN  IF ~bundle.ok THEN Handled(bundle.cache, StatusOfUnhandled, TRUE, None)
        ELSE Handled(bundle.cache, 200, TRUE,
                     Some(CountBy(bundle.rows, IF groupby = "User Name" THEN "UserName" ELSE "RiskLevel")))

\* The handler of an endpoint; param is its column or groupby parameter
handle(endpoint, cache, d, t, listing, param) ==
    CASE endpoint = "/meta/schema" -> get_schema(cache, d, t, listing)
      [] endpoint = "/meta/facets" -> get_facets(cache, d, t, listing, param.column)
      [] endpoint = "/risk/actions/summary" -> summary_actions(cache, d, t, listing, param.groupby)
      [] endpoint = "/risk/actions/query" ->
            LET out == query_actions(cache, d, t,
                                     [cursor |-> None, limit |-> 1, offset |-> 0, risk_level |-> ""],
                                     listing, listing)
            IN  Handled(out.cache, out.resp.status, TRUE,
                        IF out.resp.status = 200 THEN Some(out.resp.data) ELSE None)

\* The framework resolves the dependencies of the route before it calls the
\* handler; an HTTPException of a dependency is the response.
dispatch(s, endpoint, api_key, cache, d, t, listing, param) ==
    LET denied == IF RouterDependencies[endpoint] = << >> THEN None ELSE require_api_key(s, api_key)
    IN  IF denied # None THEN Handled(cache, denied[1], FALSE, None)
        ELSE handle(endpoint, cache, d, t, listing, param)

\* The x-api-key header of a request: absent, the configured key, another key
ApiKeys == { None, Some("test-key"), Some("wrong-key") }

Params == [column : { "risk level", "nope" }, groupby : { "Risk Level", "Role" }]

Serve ==
    /\ calls > 0
    /\ calls' = calls - 1
    /\ \E endpoint \in Routes, api_key \in ApiKeys, param \in Params :
       \E listing \in WholeListings(dir) :
       \E out \in { dispatch(settings, endpoint, api_key, file_cache, dir, now, listing, param) } :
          /\ file_cache' = out.cache
          /\ last' = [ called |-> TRUE, endpoint |-> endpoint, api_key |-> api_key,
                       status |-> out.status, core |-> out.core, data |-> out.data ]
    /\ res' = NoRes
    /\ UNCHANGED <<dir, now, writes, client, rotating, hashed, served, held, walk, cur>>
    /\ UNCHANGED remoteVars
    /\ UNCHANGED tbl
    /\ UNCHANGED raceVars

InitGate ==
    /\ InitWith([limit |-> 1, risk_level |-> "", kind |-> "plain"], "actions", MaxCalls)
    /\ cur = NoCur

NextGate == Tick \/ ProducerAdd \/ Serve

SpecGate == InitGate /\ [][NextGate]_vars

\* C16 as claimed: a request whose handler went on to load a bundle, or whose
\* response carries data of the reports, presented the configured API key.
C16_NoCoreWithoutKey ==
    (last.called /\ (last.core \/ last.data # None)) => last.api_key = Some(settings.api_key)

----------------------------------------------------------------------------
\* Column selection: _prepare_columns, canonicalize_columns, select_columns

MaxColumns == 2

\* The canonical columns the frames of this part have, and those of them that
\* are default columns
CANONICAL_COLUMNS == << "User ID", "User Name", "User Group", "Risk Level" >>

DEFAULT_COLUMNS == << "User ID", "User Name", "Risk Level" >>

\* The items of a columns parameter, as split(",") yields them
ColumnItems == { "user name", "RISK LEVEL", " User Group ", "User ID", "nope", "" }

\* str.strip()
strip(item) == IF item = " User Group " THEN "User Group" ELSE item

\* str.lower() on column names
lower_name(name) ==
    CASE name = "RISK LEVEL" -> "risk level"
      [] name = "Risk Level" -> "risk level"
      [] name = "User Group" -> "user group"
      [] name = "User Name"  -> "user name"
      [] name = "User ID"    -> "user id"
      [] OTHER               -> name

\* _prepare_columns on the items of the parameter; None when the parameter is
\* not given or has no item left
prepare_columns(columns) ==
    IF columns = None THEN None
    ELSE LET items == SelectSeq([ i \in DOMAIN columns[1] |-> strip(columns[1][i]) ],
                                LAMBDA item : item # "")
         IN  IF items = << >> THEN None ELSE Some(items)

\* canon = {name.lower(): name for name in CANONICAL_COLUMNS}
canon_keys == { lower_name(CANONICAL_COLUMNS[i]) : i \in DOMAIN CANONICAL_COLUMNS }

canon(key) ==
    CANONICAL_COLUMNS[CHOOSE i \in DOMAIN CANONICAL_COLUMNS : lower_name(CANONICAL_COLUMNS[i]) = key]

\* canonicalize_columns: the canonical names in the requested order, or the
\* KeyError of the first unknown name
canonicalize_columns(columns) ==
    IF \E i \in DOMAIN columns : lower_name(columns[i]) \notin canon_keys
    THEN [err |-> Some("KeyError")]
    ELSE [err |-> None, resolved |-> [ i \in DOMAIN columns |-> canon(lower_name(columns[i])) ]]

\* select_columns followed by the collect of the page: lf.select(resolved)
\* refuses a column named twice
select_columns(lf, columns) ==
    LET res0 == IF columns # None THEN canonicalize_columns(columns[1])
                ELSE [err |-> None, resolved |-> DEFAULT_COLUMNS]
    IN  IF res0.err # None THEN res0
        ELSE IF \E i, j \in DOMAIN res0.resolved : i # j /\ res0.resolved[i] = res0.resolved[j]
        THEN [err |-> Some("DuplicateError")]
        ELSE [ err     |-> None,
               columns |-> res0.resolved,
               rows    |-> [ i \in DOMAIN lf |->
                               [ c \in { res0.resolved[k] : k \in DOMAIN res0.resolved } |-> lf[i][c] ] ] ]

\* The rows of a frame with the canonical columns
ColumnRow(uid, uname, ugroup, risk) ==
    [ c \in { CANONICAL_COLUMNS[i] : i \in DOMAIN CANONICAL_COLUMNS } |->
        CASE c = "User ID"    -> uid
          [] c = "User Name"  -> uname
          [] c = "User Group" -> ugroup
          [] c = "Risk Level" -> risk ]

ColumnFrames ==
    { << >>,
      << ColumnRow("u1", "Ann", "g1", "High") >>,
      << ColumnRow("u1", "Ann", "g1", "High"), ColumnRow("u2", "Bob", "g2", "low") >> }

ColumnParams ==
    { None } \cup { Some(items) : items \in UNION { [1..n -> ColumnItems] : n \in 0..MaxColumns } }

\* The part of query_actions between the filters and the response: an
\* exception that is no HTTPException leaves the handler and is answered 500.
query_columns(lf, columns) ==
    LET sel == select_columns(lf, prepare_columns(columns))
    IN  IF sel.err # None THEN ErrorResponse(StatusOfUnhandled, sel.err[1])
        ELSE [status |-> 200, columns |-> sel.columns, data |-> sel.rows]

InitColumns ==
    /\ InitWith([limit |-> 1, risk_level |-> "", kind |-> "plain"], "actions", 0)
    /\ cur = NoCur

SelectColumns ==
    /\ tbl.stage = "none"
    /\ \E lf \in ColumnFrames, columns \in ColumnParams :
          tbl' = [ stage |-> "selected", lf |-> lf, columns |-> columns,
                   resp |-> query_columns(lf, columns) ]
    /\ UNCHANGED <<dir, now, writes, calls, client, rotating, file_cache, res, hashed, last, served, held,
                   walk, cur>>
    /\ UNCHANGED remoteVars
    /\ UNCHANGED raceVars

NextColumns == SelectColumns

SpecColumns == InitColumns /\ [][NextColumns]_vars

\* The names the request asks for, and whether each names a canonical column
Requested == prepare_columns(tbl.columns)

AllKnown == \A i \in DOMAIN Requested[1] : lower_name(Requested[1][i]) \in canon_keys

\* C17 as claimed: requested names are resolved, whatever their case, to the
\* canonical columns in the requested order; a name that matches no canonical
\* column is answered with a client error; without requested columns the rows
\* have exactly the default columns.
C17_ColumnSelection ==
    tbl.stage = "selected" =>
        /\ Requested = None =>
              /\ tbl.resp.status = 200
              /\ tbl.resp.columns = DEFAULT_COLUMNS
              /\ \A i \in DOMAIN tbl.resp.data :
                    DOMAIN tbl.resp.data[i] = { DEFAULT_COLUMNS[k] : k \in DOMAIN DEFAULT_COLUMNS }
        /\ (Requested # None /\ ~AllKnown) =>
              tbl.resp.status >= 400 /\ tbl.resp.status < 500
        /\ (Requested # None /\ AllKnown) =>
              /\ tbl.resp.status = 200
              /\ tbl.resp.columns = [ i \in DOMAIN Requested[1] |-> canon(lower_name(Requested[1][i])) ]

----------------------------------------------------------------------------
\* Direct calls of GraphClient().ensure_cached(filename), as iter_remote_files
\* makes them

\* The names asked for: reports the remote folder of the model can hold
EnsureNames == { [prefix |-> FILE_PATTERNS[c], stamp |-> 1] : c \in {"actions", "perms"} }

EnsureCached ==
    /\ calls > 0
    /\ calls' = calls - 1
    /\ \E filename \in EnsureNames, up \in BOOLEAN :
       \E out \in { ensure_cached([settings |-> settings, remote |-> remote, now |-> now, up |-> up],
                                  GraphClient, World, filename) } :
             /\ cache_dir' = out.w.cache_dir
             /\ wire' = out.w.wire
             /\ res' = [ called   |-> TRUE,
                         filename |-> filename,
                         up       |-> up,
                         world    |-> World,
                         err      |-> out.err,
                         val      |-> IF out.err = None THEN Some(out.val) ELSE None ]
    /\ last' = NoLast
    /\ UNCHANGED <<dir, now, writes, client, rotating, file_cache, hashed, served, held, walk, cur,
                   settings, remote, names_cache>>
    /\ UNCHANGED raceVars
    /\ UNCHANGED tbl

NextEnsure == Tick \/ RemoteRemove \/ EnsureCached

SpecEnsure == InitSources /\ [][NextEnsure]_vars

\* Before the call the cache directory held a copy of the file younger than
\* the listing time-to-live.
HadFreshCopy ==
    /\ res.filename \in DOMAIN res.world.cache_dir
    /\ now - res.world.cache_dir[res.filename].mtime < GraphCacheTtl * TicksPerSecond

\* The call obtained a listing: the credentials and the folder path are set
\* and the remote service answers.
ListingObtained == settings.creds /\ settings.folder_path /\ res.up

Downloaded == Len(wire.download) > Len(res.world.wire.download)

\* C18: ensure_cached downloads only without a fresh local copy; with a fresh
\* copy it sends no request at all, writes nothing and returns the local path,
\* whether or not the remote folder still holds the file; without a fresh copy
\* and with the name absent from the listing it raises FileNotFoundError and
\* writes nothing.
C18_EnsureCached ==
    res.called =>
        /\ Downloaded => ~HadFreshCopy
        /\ HadFreshCopy =>
              /\ wire = res.world.wire
              /\ cache_dir = res.world.cache_dir
              /\ res.err = None
              /\ res.val = Some(res.filename)
        /\ (~HadFreshCopy /\ ListingObtained /\ res.filename \notin DOMAIN remote) =>
              /\ res.err = Some("FileNotFoundError")
              /\ cache_dir = res.world.cache_dir
              /\ ~Downloaded

\* The call returned the fresh copy of a file that the remote folder no
\* longer holds.
C18_Witness ==
    /\ res.called
    /\ HadFreshCopy
    /\ res.filename \notin DOMAIN remote
    /\ res.val = Some(res.filename)

----------------------------------------------------------------------------
\* The requests a process sends over a sequence of resolve calls

\* Two requests of one kind, the earlier of them answered, less than ttl
\* ticks apart
TwoWithin(requests, ttl) ==
    \E i, j \in DOMAIN requests :
        i < j /\ requests[i].ok /\ requests[j].at - requests[i].at < ttl

\* The module's cache of remote names held, before the call, a listing
\* obtained less than the listing time-to-live ago.
ListingCached ==
    /\ res.world.names_cache.names # None
    /\ now - res.world.names_cache.timestamp < GraphTtlTicks

\* C19 as claimed: once the remote folder has been listed, empty or not, it
\* is not listed again within the listing time-to-live, and a resolve that
\* finds the listing cached sends no token request and no listing request.
C19_ListedOncePerTtl ==
    /\ ~TwoWithin(wire.list, GraphTtlTicks)
    /\ (res.called /\ ListingCached) =>
          (wire.list = res.world.wire.list /\ wire.auth = res.world.wire.auth)

\* self._token_cache = TTLCache(maxsize=1, ttl=3500)
TOKEN_TTL == 3500

TokenTtlTicks == TOKEN_TTL * TicksPerSecond

\* C20 as claimed: after a credential exchange that returned a token, the
\* process performs no other exchange within the token time-to-live.
C20_OneExchangePerTokenTtl == ~TwoWithin(wire.auth, TokenTtlTicks)

----------------------------------------------------------------------------
\* Direct calls of GraphClient().list_files(): a new client, so a miss of its
\* listing cache

ListFiles ==
    /\ calls > 0
    /\ calls' = calls - 1
    /\ \E up \in BOOLEAN :
       \E out \in { list_files([settings |-> settings, remote |-> remote, now |-> now, up |-> up],
                               GraphClient, World) } :
             /\ wire' = out.w.wire
             /\ res' = [ called |-> TRUE,
                         up     |-> up,
                         world  |-> World,
                         err    |-> out.err,
                         g      |-> out.g ]
    /\ last' = NoLast
    /\ UNCHANGED <<dir, now, writes, client, rotating, file_cache, hashed, served, held, walk, cur,
                   settings, remote, cache_dir, names_cache>>
    /\ UNCHANGED raceVars
    /\ UNCHANGED tbl

NextList == Tick \/ RemoteRemove \/ ListFiles

SpecList == InitSources /\ [][NextList]_vars

\* C21 as claimed: with the folder path unset, or the credentials incomplete,
\* list_files fails with the configuration error, sends no request and leaves
\* the caches of the client empty.
C21_MisconfiguredNoRequest ==
    (res.called /\ (~settings.folder_path \/ ~settings.creds)) =>
        /\ res.err = Some("RuntimeError")
        /\ wire = res.world.wire
        /\ res.g = GraphClient

----------------------------------------------------------------------------
\* datasets.py: summarize, and the summary handler around it

MaxSummaryRows == 5
MaxTop == 2

SUMMARY_GROUPS == { "Role ID", "User Name", "Risk Level", "Action", "System" }

\* The field of a row that holds a column
FieldOf ==
    [ c \in SUMMARY_GROUPS |->
        CASE c = "Role ID"    -> "RoleID"
          [] c = "User Name"  -> "UserName"
          [] c = "Risk Level" -> "RiskLevel"
          [] c = "Action"     -> "Action"
          [] c = "System"     -> "System" ]

\* The head(3) without the limit: every non-null name
examples_unlimited(rows) ==
    LET names == SelectSeq([ i \in DOMAIN rows |-> rows[i].UserName ], LAMBDA cell : cell # None)
    IN  [ i \in DOMAIN names |-> names[i][1] ]

\* pl.col("User Name").drop_nulls().head(3)
examples(rows) ==
    LET names == SelectSeq([ i \in DOMAIN rows |-> rows[i].UserName ], LAMBDA cell : cell # None)
    IN  [ i \in 1..(IF Len(names) < 3 THEN Len(names) ELSE 3) |-> names[i][1] ]

\* group_by(groupby).agg(...): one record per value of the column, null
\* included, in no particular order
group_records(lf, groupby) ==
    { [ group    |-> v,
        count    |-> Len(SelectSeq(lf, LAMBDA row : row[FieldOf[groupby]] = v)),
        examples |-> examples(SelectSeq(lf, LAMBDA row : row[FieldOf[groupby]] = v)) ] :
      v \in { lf[i][FieldOf[groupby]] : i \in DOMAIN lf } }

\* summarize: the results sort("count", descending=True).limit(top) can give,
\* one for every order in which group_by yields the groups
summarize(lf, groupby, top) ==
    { SubSeq(p, 1, IF Len(p) < top THEN Len(p) ELSE top) :
        p \in { q \in Perms(group_records(lf, groupby)) :
                  \A i \in 1..(Len(q) - 1) : q[i].count >= q[i + 1].count } }

\* str.strip() on the groupby parameter
strip_group(groupby) == IF groupby = " System " THEN "System" ELSE groupby

\* summary_actions: the outcomes of a request on a bundle whose frame is lf;
\* loaded tells whether actions_bundle() was called
summary_responses(lf, groupby, top, f) ==
    IF strip_group(groupby) \notin SUMMARY_GROUPS
    THEN { [status |-> 400, loaded |-> FALSE, data |-> << >>, report_type |-> None] }
    ELSE { [status |-> 200, loaded |-> TRUE, data |-> records,
            report_type |-> Some(report_label("actions"))] :
           records \in summarize(apply_all_filters(lf, f), strip_group(groupby), top) }

SummaryRows ==
    { WideRow(Some(<<"u", "1">>), Some(<<"A", "b">>), Some("R1"), Some("High"), Some("SAP"),
              Some("Approve"), None),
      WideRow(Some(<<"u", "2">>), None, Some("R1"), Some("HIGH"), None,
              Some("Approve"), None),
      WideRow(Some(<<"u", "3">>), Some(<<"b">>), None, Some("low"), Some("SAP"),
              Some("Pay"), None) }

SummaryFrames == UNION { [1..n -> SummaryRows] : n \in 0..MaxSummaryRows }

NoFilters ==
    [ user |-> None, role |-> None, risk_level |-> None, system |-> None, action |-> None,
      date_from |-> None, date_to |-> None ]

SummaryFilters == { NoFilters, [NoFilters EXCEPT !.risk_level = Some("high")] }

GroupParams == { "Risk Level", "Role ID", "User Name", " System ", "Role", "risk level" }

InitSummary ==
    /\ InitWith([limit |-> 1, risk_level |-> "", kind |-> "plain"], "actions", 0)
    /\ cur = NoCur

Summarize ==
    /\ tbl.stage = "none"
    /\ \E lf \in SummaryFrames, f \in SummaryFilters, groupby \in GroupParams, top \in 1..MaxTop :
       \E resp \in summary_responses(lf, groupby, top, f) :
          tbl' = [ stage |-> "summarized", lf |-> lf, filters |-> f, groupby |-> groupby,
                   top |-> top, resp |-> resp ]
    /\ UNCHANGED <<dir, now, writes, calls, client, rotating, file_cache, res, hashed, last, served, held,
                   walk, cur>>
    /\ UNCHANGED remoteVars
    /\ UNCHANGED raceVars

NextSummary == Summarize

SpecSummary == InitSummary /\ [][NextSummary]_vars

\* The filtered rows whose group-by column holds v
RowsOfGroup(v) ==
    { i \in DOMAIN tbl.lf :
        /\ SatisfiesAll(tbl.lf[i], tbl.filters)
        /\ tbl.lf[i][FieldOf[strip_group(tbl.groupby)]] = v }

\* C22: a summary holds at most top groups, no group twice, by count
\* non-increasing; the count of a group is the number of filtered rows with
\* its value; its examples are at most 3 user names, none null, of rows of
\* the group; an unsupported group-by column is answered 400 and no bundle
\* is loaded.
C22_Summary ==
    tbl.stage = "summarized" =>
        IF strip_group(tbl.groupby) \notin SUMMARY_GROUPS
        THEN tbl.resp.status = 400 /\ ~tbl.resp.loaded
        ELSE LET data == tbl.resp.data
             IN  /\ tbl.resp.status = 200
                 /\ Len(data) <= tbl.top
                 /\ \A i, j \in DOMAIN data : i < j =>
                       (data[i].count >= data[j].count /\ data[i].group # data[j].group)
                 /\ \A r \in DOMAIN tbl.lf :
                       LET v == tbl.lf[r][FieldOf[strip_group(tbl.groupby)]]
                       IN  (SatisfiesAll(tbl.lf[r], tbl.filters)
                            /\ \A i \in DOMAIN data : data[i].group # v) =>
                               /\ Len(data) = tbl.top
                               /\ \A i \in DOMAIN data :
                                     data[i].count >= Cardinality(RowsOfGroup(v))
                 /\ \A i \in DOMAIN data :
                       /\ data[i].count = Cardinality(RowsOfGroup(data[i].group))
                       /\ data[i].count >= 1
                       /\ Len(data[i].examples) <= 3
                       /\ \A k \in DOMAIN data[i].examples :
                             \E r \in RowsOfGroup(data[i].group) :
                                tbl.lf[r].UserName = Some(data[i].examples[k])

\* Of five rows four fell in one group, which gave three examples, and top
\* cut the other group off.
C22_Witness ==
    /\ tbl.stage = "summarized"
    /\ tbl.resp.status = 200
    /\ Len(tbl.lf) = 5
    /\ tbl.top = 1
    /\ Len(tbl.resp.data) = 1
    /\ tbl.resp.data[1].count = 4
    /\ Len(tbl.resp.data[1].examples) = 3
    /\ tbl.filters = NoFilters

----------------------------------------------------------------------------
\* datasets.py: paginate_collect on a filtered frame

MaxPageOffset == 3

InitPage ==
    /\ InitWith([limit |-> 1, risk_level |-> "", kind |-> "plain"], "actions", 0)
    /\ cur = NoCur

PageFetch ==
    /\ tbl.stage = "none"
    /\ \E lf \in SummaryFrames, f \in SummaryFilters, limit \in 1..MaxLimit, offset \in 0..MaxPageOffset :
          tbl' = [ stage |-> "paged", lf |-> lf, filters |-> f, limit |-> limit, offset |-> offset,
                   out |-> apply_all_filters(lf, f),
                   page |-> paginate_collect(apply_all_filters(lf, f), limit, offset) ]
    /\ UNCHANGED <<dir, now, writes, calls, client, rotating, file_cache, res, hashed, last, served, held,
                   walk, cur>>
    /\ UNCHANGED remoteVars
    /\ UNCHANGED raceVars

NextPage == PageFetch

SpecPage == InitPage /\ [][NextPage]_vars

\* C23: a page fetched at offset >= 0 with limit >= 1 holds the rows at
\* positions offset .. offset+limit-1 of the filtered result, in order and
\* fewer when the result ends earlier, never more than limit rows; has_more
\* holds exactly when the filtered result has more than offset+limit rows.
C23_PageFetch ==
    tbl.stage = "paged" =>
        LET n     == Len(tbl.out)
            avail == IF n > tbl.offset THEN n - tbl.offset ELSE 0
        IN  /\ Len(tbl.page.rows) = (IF avail < tbl.limit THEN avail ELSE tbl.limit)
            /\ Len(tbl.page.rows) <= tbl.limit
            /\ \A k \in DOMAIN tbl.page.rows : tbl.page.rows[k] = tbl.out[tbl.offset + k]
            /\ tbl.page.has_more <=> (n > tbl.offset + tbl.limit)

\* A full page from the middle of a filtered result that goes on after it,
\* the filter having dropped a row before the page.
C23_Witness ==
    /\ tbl.stage = "paged"
    /\ tbl.offset = 1
    /\ tbl.limit = 2
    /\ Len(tbl.out) = 4
    /\ Len(tbl.lf) = 5
    /\ tbl.page.has_more
    /\ Len(tbl.page.rows) = 2
    /\ tbl.page.rows[1] # tbl.page.rows[2]
    /\ tbl.page.rows[1] # tbl.out[1]

----------------------------------------------------------------------------
\* Claims about the offsets of cursors (SpecOpen)

\* C24: in every query request, whatever token the client supplies, the
\* offset the filtered result is sliced at is >= 0, and so is the offset
\* inside every token the service issues.
C24_OffsetsNeverNegative ==
    (last.called /\ last.effective_offset # None) =>
        /\ last.effective_offset[1] >= 0
        /\ (last.resp.status = 200 /\ last.resp.cursor # None) =>
               decode_cursor(last.resp.cursor[1]).cursor.offset >= 0

\* The request that has just been answered carried a cursor token.
TokenSupplied == last.called /\ last.req.cursor \notin {None, Some(TokEmpty)}

\* The cursor the token of the last request decodes to
Supplied == decode_cursor(last.req.cursor[1])

\* C25: whenever a cursor token is supplied, the offset parameter has no
\* effect on the response: the page starts at the decoded offset when the
\* fingerprint of the token matches and at 0 when it is stale, and the same
\* request with any other offset is answered the same.
C25_OffsetParameterOnlyFresh ==
    (TokenSupplied /\ last.bundle # None) =>
        /\ \A off \in 0..(MaxOffset + 1) :
              query_page(last.bundle[1], [last.req EXCEPT !.offset = off]).resp = last.resp
        /\ Supplied.ok =>
              last.effective_offset =
                 Some(IF Supplied.cursor.file_hash = last.bundle[1].file_hash
                      THEN Supplied.cursor.offset ELSE 0)

\* A token of the current bundle came with a non-zero offset parameter and
\* the page started at the offset of the token.
C25_Witness ==
    /\ TokenSupplied
    /\ last.bundle # None
    /\ last.req.offset > 0
    /\ Supplied.ok
    /\ Supplied.cursor.file_hash = last.bundle[1].file_hash
    /\ last.resp.status = 200
    /\ Len(last.resp.data) > 0

\* A stale token came with a non-zero offset parameter and the page started
\* at 0.
C25_WitnessStale ==
    /\ TokenSupplied
    /\ last.bundle # None
    /\ last.req.offset > 0
    /\ Supplied.ok
    /\ Supplied.cursor.file_hash # last.bundle[1].file_hash
    /\ last.effective_offset = Some(0)

----------------------------------------------------------------------------
\* datasets.py: the fingerprint of a bundle as a function of the
\* fingerprints of its two files

HashSizes == {1, 11}
HashSeconds == {1, 11}

\* The fingerprints files of any category can have
FileHashes ==
    { compute_file_hash(n, [size |-> size, mtime |-> sec * TicksPerSecond]) :
        n \in UNION { ReportNames(c) : c \in ReportType },
        size \in HashSizes, sec \in HashSeconds }

HashPairs == { << regular, critical >> : regular \in FileHashes, critical \in FileHashes }

InitHash ==
    /\ InitWith([limit |-> 1, risk_level |-> "", kind |-> "plain"], "actions", 0)
    /\ cur = NoCur

CombineHashes ==
    /\ tbl.stage = "none"
    /\ \E pair \in HashPairs :
          tbl' = [ stage |-> "combined", pair |-> pair, file_hash |-> combined_hash(pair) ]
    /\ UNCHANGED <<dir, now, writes, calls, client, rotating, file_cache, res, hashed, last, served, held,
                   walk, cur>>
    /\ UNCHANGED remoteVars
    /\ UNCHANGED raceVars

NextHash == CombineHashes

SpecHash == InitHash /\ [][NextHash]_vars

\* C26: with the hash taken as injective, an ordered pair of file
\* fingerprints has the bundle fingerprint of the pair at hand exactly when
\* it is that pair: the same pair gives the same fingerprint, and every
\* other pair, the swapped one and those of other families included, gives
\* another.
C26_BundleFingerprintInjective ==
    tbl.stage = "combined" =>
        \A other \in HashPairs : (combined_hash(other) = tbl.file_hash) <=> (other = tbl.pair)

\* The pair at hand has a critical file of one family in the regular place
\* and a regular file of the other family in the critical place.
C26_Witness ==
    /\ tbl.stage = "combined"
    /\ tbl.pair[1][1].prefix = FILE_PATTERNS["crit_actions"]
    /\ tbl.pair[2][1].prefix = FILE_PATTERNS["perms"]
    /\ tbl.pair[1][2] = 11
    /\ tbl.pair[2][3] = 11

----------------------------------------------------------------------------
\* Rotation becomes visible (SpecRace)

\* The producer has added one file of the rotating category, newer than the
\* one the directory started with, and nothing else has changed.
AddedOnly ==
    /\ writes = 1
    /\ \E n \in Candidates(dir, rotating) : n \notin DOMAIN InitDir

\* The record of the newest file of the rotating category
NewRecord == SequentialRecord(StatOf(dir, Newest(dir, rotating)), rotating)

\* The cache holds an entry of the rotating category that has expired.
EntryExpired == rotating \in DOMAIN file_cache /\ now >= file_cache[rotating].expires

\* The steps of call t, told by its position before and after
Looked(t) == t \notin DOMAIN threads /\ t \in DOMAIN threads'
DiscoveryRan(t) == t \in DOMAIN threads /\ threads[t].pc = "miss" /\ threads'[t].pc # "miss"
Stored(t) == t \in DOMAIN threads /\ threads[t].pc = "found" /\ threads'[t].pc = "done"

----------------------------------------------------------------------------
\* datasets.py: the critical flag and the label of the rows of a bundle

MaxFileRows == 2

\* The rows of a report file that has an IsCritical column of its own, and
\* of one that has none
RowsWithColumn(has_column) ==
    IF has_column
    THEN { [UserName |-> "u1", RiskLevel |-> "High", IsCritical |-> b] : b \in BOOLEAN }
    ELSE { Row("u1", "High") }

FileContents ==
    UNION { [1..n -> RowsWithColumn(has_column)] : n \in 0..MaxFileRows, has_column \in BOOLEAN }

\* The two categories of a family, the regular one first
FamilyCategories ==
    [ actions |-> << "actions", "crit_actions" >>, permissions |-> << "perms", "crit_perms" >> ]

NameOf(c) == [prefix |-> FILE_PATTERNS[c], stamp |-> 1]

InitBundle ==
    /\ InitWith([limit |-> 1, risk_level |-> "", kind |-> "plain"], "actions", 0)
    /\ cur = NoCur

LoadBundle ==
    /\ tbl.stage = "none"
    /\ \E family \in DOMAIN FamilyCategories, regular \in FileContents, critical \in FileContents :
       \E d \in { [ n \in { NameOf(FamilyCategories[family][1]), NameOf(FamilyCategories[family][2]) } |->
                      IF n = NameOf(FamilyCategories[family][1])
                      THEN NewFile(regular, 0) ELSE NewFile(critical, 0) ] } :
       \E listing \in WholeListings(d) :
       \E bundle \in { IF family = "actions"
                       THEN actions_bundle(<< >>, d, 0, listing, listing)
                       ELSE permissions_bundle(<< >>, d, 0, listing, listing) } :
          tbl' = [ stage |-> "bundle", family |-> family, regular |-> regular, critical |-> critical,
                   rows |-> bundle.rows ]
    /\ UNCHANGED <<dir, now, writes, calls, client, rotating, file_cache, res, hashed, last, served, held,
                   walk, cur>>
    /\ UNCHANGED remoteVars
    /\ UNCHANGED raceVars

NextBundle == LoadBundle

SpecBundle == InitBundle /\ [][NextBundle]_vars

\* The characters of the stems of the file names, without the digits
StemChars ==
    [ actions      |-> << "R", "S", "_", "A", "c", "t", "i", "o", "n", "_", "L", "v", "l", "_" >>,
      crit_actions |-> << "R", "S", "_", "C", "r", "i", "t", "A", "c", "t", "i", "o", "n", "_", "L", "v", "l", "_" >>,
      perms        |-> << "R", "S", "_", "P", "e", "r", "m", "_", "L", "v", "l", "_" >>,
      crit_perms   |-> << "R", "S", "_", "C", "r", "i", "t", "P", "e", "r", "m", "_", "L", "v", "l", "_" >> ]

\* The characters hold "crit" in upper or lower case.
HasCrit(chars) ==
    \E i \in 1..(Len(chars) - 3) :
        /\ chars[i] \in {"c", "C"}
        /\ chars[i + 1] \in {"r", "R"}
        /\ chars[i + 2] \in {"i", "I"}
        /\ chars[i + 3] \in {"t", "T"}

\* The category of the file row i of the bundle came from, if the regular
\* rows come first
SourceOf(i) ==
    FamilyCategories[tbl.family][IF i <= Len(tbl.regular) THEN 1 ELSE 2]

\* C28: the rows of a bundle are those of the regular file followed by those
\* of the critical file; IsCritical of a row holds exactly when the name of
\* its file holds "crit" in any case, whatever an IsCritical column of the
\* file says: the regular rows carry FALSE and the label Action or
\* Permission, the critical rows TRUE and the label Critical Action or
\* Critical Permission.
C28_CriticalFlagFromName ==
    tbl.stage = "bundle" =>
        /\ Len(tbl.rows) = Len(tbl.regular) + Len(tbl.critical)
        /\ \A i \in DOMAIN tbl.rows :
              /\ tbl.rows[i].IsCritical <=> HasCrit(StemChars[SourceOf(i)])
              /\ tbl.rows[i].IsCritical <=> (i > Len(tbl.regular))
              /\ tbl.rows[i].ReportType =
                    (IF i > Len(tbl.regular) THEN "Critical " ELSE "")
                        \o (IF tbl.family = "actions" THEN "Action" ELSE "Permission")

\* The regular file has a row whose own IsCritical column says TRUE, the
\* critical file a row whose column says FALSE.
C28_Witness ==
    /\ tbl.stage = "bundle"
    /\ tbl.family = "permissions"
    /\ \E i \in DOMAIN tbl.regular :
          "IsCritical" \in DOMAIN tbl.regular[i] /\ tbl.regular[i].IsCritical
    /\ \E i \in DOMAIN tbl.critical :
          "IsCritical" \in DOMAIN tbl.critical[i] /\ ~tbl.critical[i].IsCritical

----------------------------------------------------------------------------
\* The token of a response and the response (SpecOpen)

\* The cursor the token of the last response decodes to
Issued == decode_cursor(last.resp.cursor[1]).cursor

\* C30: whatever token the client submitted, the token a query response
\* carries holds the fingerprint and the family of that response.
C30_IssuedTokenBoundToResponse ==
    (last.called /\ last.resp.status = 200 /\ last.resp.cursor # None) =>
        /\ Issued.file_hash = last.resp.file_hash
        /\ Issued.report_type = last.resp.report_type

----------------------------------------------------------------------------
\* Resolves that fail, and the resolves after them

\* A remote folder with reports of every category but the actions
OtherFolder ==
    [ n \in { m \in DOMAIN RemoteFolder : m.prefix # FILE_PATTERNS["actions"] } |-> RemoteFolder[n] ]

\* No source holds a report of the actions category at the start; a local
\* directory exists when it is configured.
InitFail ==
    /\ \E s \in { c \in Configurations : c.dir_exists = c.env_path }, r \in {<< >>, OtherFolder} :
          InitRemoteVars(s, r)
    /\ dir = (IF settings.dir_exists THEN NoReports ELSE << >>)
    /\ rotating = "actions"
    /\ now = 0
    /\ writes = 0
    /\ calls = MaxCalls
    /\ client = [limit |-> 1, risk_level |-> "", kind |-> "plain"]
    /\ file_cache = << >>
    /\ res = NoRes
    /\ hashed = None
    /\ last = NoLast
    /\ served = None
    /\ held = None
    /\ walk = NoWalk
    /\ cur = NoCur

\* The producer drops a report into the local directory
LocalAdd == settings.dir_exists /\ ProducerAdd

\* A report of the rotating category appears in the remote folder
RemoteAdd ==
    /\ writes < MaxWrites
    /\ writes' = writes + 1
    /\ \E n \in ReportNames(rotating) \ DOMAIN remote :
          remote' = [ m \in DOMAIN remote \cup {n} |-> IF m = n THEN [rows |-> ContentA] ELSE remote[m] ]
    /\ res' = NoRes
    /\ last' = NoLast
    /\ UNCHANGED <<dir, now, calls, client, rotating, file_cache, hashed, served, held, walk, cur,
                   settings, cache_dir, names_cache, wire>>
    /\ UNCHANGED raceVars
    /\ UNCHANGED tbl

NextFail == Tick \/ LocalAdd \/ RemoteAdd \/ ResolveOf(rotating)

SpecFail == InitFail /\ [][NextFail]_vars

\* The resolve that has just returned failed.
Failed == res.called /\ res.err # None

\* The resolve that has just returned ran discovery where the local
\* directory holds a report of the category.
RetryLocal == res.called /\ res.discovered /\ LocalCandidate(res.report_type)

\* The resolve that has just returned ran discovery without a local source
\* configured, the remote source configured and reachable and its folder
\* holding a report of the category.
RetryRemote ==
    /\ res.called
    /\ res.discovered
    /\ ~LocalConfigured
    /\ settings.creds /\ settings.folder_path
    /\ res.up
    /\ Candidates(remote, res.report_type) # {}

\* C29 as claimed: a failed resolve leaves the FileIndex cache as it was,
\* and a resolve that runs discovery when a matching file exists succeeds.
C29_FailureNotCached ==
    /\ Failed => file_cache = res.before
    /\ (RetryLocal \/ RetryRemote) => res.err = None

\* C29, amended: a failed resolve leaves the FileIndex cache as it was; a
\* resolve that runs discovery succeeds when the local directory holds a
\* matching file, and with the remote source when the listing it uses holds
\* one: it lists the folder again only if the module holds no unexpired
\* listing, and fails with FileNotFoundError on the cached one.
C29_FailureNotCachedListingFresh ==
    /\ Failed => file_cache = res.before
    /\ RetryLocal => res.err = None
    /\ (RetryRemote /\ ~(ListingCached /\ res.world.names_cache.names[1] # << >>)) => res.err = None
    /\ (RetryRemote /\ res.err # None) => res.err = Some("FileNotFoundError")

\* The second resolve succeeded by its own discovery on a file that appeared
\* after the first had failed and left the cache empty.
C29_Witness ==
    /\ res.called
    /\ calls <= MaxCalls - 2
    /\ res.before = << >>
    /\ res.discovered
    /\ res.err = None
    /\ writes = 1

\* The second resolve failed on the listing the first one had cached, with a
\* matching file in the remote folder.
C29_WitnessStaleListing ==
    /\ RetryRemote
    /\ res.err = Some("FileNotFoundError")
    /\ file_cache = << >>

----------------------------------------------------------------------------
\* Remote mode with a remote folder that nobody changes

\* No local directory is configured; the credentials and the folder path
\* are set; the remote folder holds one report of each category.
RemoteSettings ==
    [ local_path |-> FALSE, env_path |-> FALSE, dir_exists |-> FALSE, creds |-> TRUE,
      folder_path |-> TRUE, api_key |-> "test-key" ]

InitStable ==
    /\ InitRemoteVars(RemoteSettings, RemoteFolder)
    /\ dir = << >>
    /\ rotating = "actions"
    /\ now = 0
    /\ writes = 0
    /\ calls = MaxCalls
    /\ client = [limit |-> 1, risk_level |-> "", kind |-> "plain"]
    /\ file_cache = << >>
    /\ res = NoRes
    /\ hashed = None
    /\ last = NoLast
    /\ served = None
    /\ held = None
    /\ walk = NoWalk
    /\ cur = NoCur

NextStable == Tick \/ ResolveAny \/ Ready

SpecStable == InitStable /\ [][NextStable]_vars

\* C31: while the files of the remote folder are unchanged, the fingerprint
\* the FileIndex holds for a category is the same after every step,
\* whatever resolves, cache expiries and refreshes of the local copies
\* happen: a record that replaces the record of a category carries the
\* fingerprint of the one it replaces.
C31_RemoteFingerprintStable ==
    [][ remote' = remote =>
          \A c \in DOMAIN file_cache \cap DOMAIN file_cache' :
              file_cache'[c].value.file_hash = file_cache[c].value.file_hash ]_vars

====
